---- MODULE Spec2Model ----
(***************************************************************************)
(* DocuScribe: the crawl loop of scrapeUrlFlow, the successor detector     *)
(* findSuccessorPages, the page fetch fetchAndProcessUrl, the markdown     *)
(* clean-up postProcessMarkdown and the document the flow returns (index,  *)
(* title, description, cover image), all of                                *)
(* src/src/ai/flows/scrape-url-flow.ts; and, around the flow, the parser   *)
(* parseContentToSections (src/src/lib/content.ts), the table documents    *)
(* with its server actions (src/unnamed/part_005), the handler of          *)
(* fetch_doc_content (src/unnamed/part_002) and the jobs of the scraper    *)
(* page with their store (runJob, src/src/state/scrapeJobsStore.ts).       *)
(*                                                                         *)
(* The handler of fetch_doc_content caps the words of an answer at 50000;  *)
(* the model counts with a small cap, MaxCap, and a default max_length     *)
(* below it.                                                               *)
(*                                                                         *)
(* A text is the sequence of its characters, each a one-character string;  *)
(* the backtick and the non-breaking space are written by name.            *)
(*                                                                         *)
(* A URL string is the record of its components as written; the URL object *)
(* made by `new URL(...)` is the record of the components of its href.     *)
(* The two differ where the URL parser rewrites the string: an empty path  *)
(* becomes "/".  Attribute values, anchor texts and paths are drawn from   *)
(* small sets of strings, and the string tests of the code (substring,     *)
(* trim, lower-casing, extension) are tabulated over those sets.           *)
(***************************************************************************)
EXTENDS Integers, Sequences, FiniteSets, TLC

VARIABLES
    \* ---- scrapeUrlFlow ----
    startUrl,        \* input.startUrl
    maxPages,        \* input.maxPages
    urlQueue,        \* const urlQueue: string[]
    visitedUrls,     \* const visitedUrls = new Set<string>()
    attemptedUrls,   \* const attemptedUrls = new Set<string>()
    results,         \* const results: {url, title, content}[]
    failures,        \* const failures: {url, reason}[]
    coverImage,      \* let coverImage: string | undefined   ("" is undefined)
    pc,              \* "idle" | "loop" | "summary" | "returned" | "threw"
    output,          \* the value the flow returns
    fetched,         \* history: one entry per call of fetchAndProcessUrl
    detectorLog,     \* history: the baseUrl of every call of findSuccessorPages
    chainLen,        \* 0: any site; n > 0: the site is a chain of n pages
    existingTitle,   \* input.existingTitle
    pageImages,      \* on a chain: what the first image of the i-th page gives
    \* ---- findSuccessorPages called on its own ----
    baseUrl,         \* input.baseUrl
    htmlContent,     \* input.htmlContent: the anchors of the page, in document order
    successorLinks,  \* the returned array
    fpc,             \* "idle" | "call" | "return"
    \* ---- fetchAndProcessUrl called on its own ----
    fetchResponse,   \* what the network and the page give for the URL
    fetchResult,     \* the returned FetchResult
    rpc,             \* "idle" | "call" | "return"
    \* ---- postProcessMarkdown called on its own ----
    md,              \* the argument
    processed,       \* the returned string
    mpc,             \* "idle" | "call" | "return"
    \* ---- parseContentToSections applied to the content returned ----
    parsedSections,  \* the returned ParsedSection[]
    ppc,             \* "idle" | "return"
    \* ---- the documents table ----
    documents,       \* the rows of the table documents
    sequence,        \* the largest id the table ever gave (AUTOINCREMENT)
    \* ---- fetch_doc_content ----
    document,        \* what the lookup by id gives
    request,         \* the query parameters of the last request
    response,        \* the answer to it
    served,          \* history: the answers of the requests so far
    \* ---- the job store and runJob ----
    jobs,            \* state.jobs of the job store
    runs,            \* the calls of runJob, in the order made: where each one is
    notified         \* history: per job, what the listeners were told of it

crawlVars == <<startUrl, maxPages, urlQueue, visitedUrls, attemptedUrls, results,
               failures, coverImage, pc, output, fetched, detectorLog, chainLen, existingTitle,
               pageImages>>
findVars == <<baseUrl, htmlContent, successorLinks, fpc>>
fetchVars == <<fetchResponse, fetchResult, rpc>>
markdownVars == <<md, processed, mpc>>
parseVars == <<parsedSections, ppc>>
\* The parts of the application around the flow.
storeVars == <<documents, sequence>>
apiVars == <<document, request, response, served>>
jobVars == <<jobs, runs, notified>>
appVars == <<parseVars, storeVars, apiVars, jobVars>>
vars == <<startUrl, maxPages, urlQueue, visitedUrls, attemptedUrls, results,
          failures, coverImage, pc, output, fetched, detectorLog, chainLen, existingTitle, pageImages,
          baseUrl, htmlContent, successorLinks, fpc,
          fetchResponse, fetchResult, rpc, md, processed, mpc,
          parsedSections, ppc, documents, sequence,
          document, request, response, served,
          jobs, runs, notified>>

\* ---------------------------------------------------------------- bounds
\* The longest page, in anchors.
MaxAnchors == 2
\* The largest maxPages tried on any site (the schema allows 1..50).
MaxPagesTried == 3
\* The largest maxPages tried on a chain.
MaxPagesOnChain == 5
\* The longest chain of pages tried.
MaxChain == 3

\* ---------------------------------------------------------------- helpers
Range(s) == {s[i] : i \in 1..Len(s)}

SeqsUpTo(S, n) == UNION {[1..k -> S] : k \in 0..n}

Min(a, b) == IF a <= b THEN a ELSE b

\* ---------------------------------------------------------------- URLs
Url(o, p, s, h) == [origin |-> o, path |-> p, search |-> s, hash |-> h]

\* processCandidate's `null`.
NoLink == Url("", "", "", "")

\* new URL(str): the parser gives an empty path the value "/".
ParseUrl(str) == Url(str.origin, IF str.path = "" THEN "/" ELSE str.path,
                     str.search, str.hash)

\* An href attribute: kind "none" is a missing attribute, "empty" is href="",
\* "invalid" is a string the URL parser rejects, "abs" an absolute URL,
\* "path" a path-absolute reference, "query" a ?query reference and "frag" a
\* #fragment reference.
HrefAttr(k, o, p, s, h) == [kind |-> k, origin |-> o, path |-> p, search |-> s, hash |-> h]

\* `!href`
HrefFalsy(href) == href.kind \in {"none", "empty"}

\* new URL(href, baseUrl) throws.
HrefThrows(href) == href.kind = "invalid"

\* new URL(href, baseUrl) for an href that parses.
ResolveHref(href, base) ==
    LET b == ParseUrl(base) IN
    CASE href.kind = "abs" -> ParseUrl(Url(href.origin, href.path, href.search, href.hash))
      [] href.kind = "path" -> Url(b.origin, href.path, href.search, href.hash)
      [] href.kind = "query" -> Url(b.origin, b.path, href.search, href.hash)
      [] href.kind = "frag" -> Url(b.origin, b.path, b.search, href.hash)
      [] OTHER -> b

\* fullUrl.hash = ''; fullUrl.search = '';
StripHashAndSearch(u) == Url(u.origin, u.path, "", "")

\* String.prototype.toLowerCase over the strings of the model.
LowerCase(s) ==
    CASE s = "PDF" -> "pdf"
      [] s = "Next" -> "next"
      [] s = "NEXT" -> "next"
      [] s = "Next page" -> "next page"
      [] OTHER -> s

\* String.prototype.trim over the strings of the model.
Trim(s) ==
    CASE s = " next " -> "next"
      [] s = " " -> ""
      [] OTHER -> s

\* The text after the last "." of the last path segment ("" when there is none).
PathExtension(path) ==
    CASE path = "/f.pdf" -> "pdf"
      [] path = "/f.PDF" -> "PDF"
      [] path = "/api.json" -> "json"
      [] OTHER -> ""

AssetExtensions == {"pdf", "zip", "jpg", "png", "gif", "css", "js", "ico", "svg"}

\* /\.(pdf|zip|jpg|png|gif|css|js|ico|svg)$/i.test(fullUrl.pathname)
IsAsset(path) == LowerCase(PathExtension(path)) \in AssetExtensions

\* ---------------------------------------------------------------- anchors
\* An <a> element: href; hreflang ("absent", or the attribute's value, which
\* may be the empty string); rel; class; aria-label; text; and whether it lies
\* inside one of the navigation containers.
Anchor(href, hreflang, rel, class, aria, text, nav) ==
    [href |-> href, hreflang |-> hreflang, rel |-> rel, class |-> class,
     aria |-> aria, text |-> text, nav |-> nav]

\* `$el.attr('hreflang')` is truthy: the attribute is there and is not "".
HreflangTruthy(el) == el.hreflang \notin {"absent", ""}

\* const isSamePage = normalizedHref === baseUrl;
IsSamePage(normalizedHref, base) == normalizedHref = base

\* Mutant of IsExternal: the origin check is lost.
IsExternalAlwaysFalse(fullUrl, base) == FALSE

\* const isExternal = fullUrl.origin !== baseOrigin;
IsExternal(fullUrl, base) == fullUrl.origin # ParseUrl(base).origin

\* if (!href || $el.attr('hreflang')) return null;
RejectsAttributes(el) == HrefFalsy(el.href) \/ HreflangTruthy(el)

\* processCandidate(el, reason): the normalized URL, or NoLink for null.
ProcessCandidate(el, base) ==
    IF RejectsAttributes(el) THEN NoLink
    ELSE IF HrefThrows(el.href) THEN NoLink
    ELSE LET fullUrl == StripHashAndSearch(ResolveHref(el.href, base)) IN
         IF \/ IsSamePage(fullUrl, base)
            \/ IsExternal(fullUrl, base)
            \/ IsAsset(fullUrl.path)
         THEN NoLink
         ELSE fullUrl

\* The four high-confidence selectors, in the order of the code.
HighConfidenceSelectors == <<"rel", "footerClass", "classContains", "ariaLabel">>

\* Whether the anchor matches the selector.
MatchesSelector(sel, el) ==
    CASE sel = "rel" -> el.rel = "next"
      [] sel = "footerClass" -> el.class = "md-footer__link--next"
      [] sel = "classContains" -> el.class \in {"md-footer__link--next", "btn-next"}
      [] sel = "ariaLabel" -> LowerCase(el.aria) \in {"next", "next page"}
      [] OTHER -> FALSE

\* exactTextPattern.test($(el).text().trim())
ExactTextMatch(el) == LowerCase(Trim(el.text)) = "next"

\* successorLinks.add(link): a Set keeps insertion order and no duplicates.
SetAdd(links, link) == IF link \in Range(links) THEN links ELSE Append(links, link)

RECURSIVE AddCandidates(_, _, _, _, _)
\* `$(selector).each(...)` from anchor i on: every anchor for which match[i]
\* holds goes through processCandidate and a non-null link is added.
AddCandidates(links, html, match, base, i) ==
    IF i > Len(html) THEN links
    ELSE LET link == IF match[i] THEN ProcessCandidate(html[i], base) ELSE NoLink IN
         AddCandidates(IF link # NoLink THEN SetAdd(links, link) ELSE links,
                       html, match, base, i + 1)

RECURSIVE Tier1(_, _, _, _)
\* for (const selector of highConfidenceSelectors) { $(selector).each(...) }
Tier1(links, html, base, k) ==
    IF k > Len(HighConfidenceSelectors) THEN links
    ELSE Tier1(AddCandidates(links, html,
                   [i \in 1..Len(html) |-> MatchesSelector(HighConfidenceSelectors[k], html[i])],
                   base, 1),
               html, base, k + 1)

\* Mutant of Tier2: the exact-text scan is skipped once a selector matched.
Tier2ShortCircuit(links, html, base) ==
    IF Len(links) > 0 THEN links
    ELSE AddCandidates(links, html, [i \in 1..Len(html) |-> ExactTextMatch(html[i])], base, 1)

\* $('a').each(...) with the exact text pattern.
Tier2(links, html, base) ==
    AddCandidates(links, html, [i \in 1..Len(html) |-> ExactTextMatch(html[i])], base, 1)

\* The else branch of the navigation scan: the anchor is the current page.
IsCurrentPage(el, base) ==
    /\ ~HrefFalsy(el.href)
    /\ ~HrefThrows(el.href)
    /\ ResolveHref(el.href, base).path = ParseUrl(base).path

RECURSIVE NavScan(_, _, _, _)
\* allNavLinks.each(...): after the current page was found, the first anchor
\* that passes processCandidate is added and the scan stops.
NavScan(nav, base, i, currentPageFound) ==
    IF i > Len(nav) THEN <<>>
    ELSE IF currentPageFound
         THEN LET link == ProcessCandidate(nav[i], base) IN
              IF link # NoLink THEN <<link>> ELSE NavScan(nav, base, i + 1, TRUE)
         ELSE NavScan(nav, base, i + 1, IsCurrentPage(nav[i], base))

IsNavAnchor(el) == el.nav

\* navContainers.find('a')
NavAnchors(html) == SelectSeq(html, IsNavAnchor)

\* Mutant of Tier3: the navigation scan runs whatever was found before.
Tier3Always(links, html, base) ==
    LET nav == NavScan(NavAnchors(html), base, 1, FALSE) IN
    IF Len(nav) = 0 THEN links ELSE SetAdd(links, nav[1])

\* if (successorLinks.size === 0) { navigation menu analysis }
Tier3(links, html, base) ==
    IF Len(links) = 0 THEN NavScan(NavAnchors(html), base, 1, FALSE) ELSE links

\* The tool's body: Array.from(successorLinks).
FindSuccessorPages(base, html) == Tier3(Tier2(Tier1(<<>>, html, base, 1), html, base), html, base)

\* ---------------------------------------------------------------- fetchAndProcessUrl
\* What the network and the page give for one URL: kind "throw" is a fetch
\* that rejects, "http" a response that is not ok, "page" an ok response with
\* its anchors, the html left in the content container after cleaning, the
\* texts of the first <title> and <h1> ("" when there is none) and what the
\* first <img> gives.
Response(kind, reason, html, contentHtml, title, h1, image) ==
    [kind |-> kind, reason |-> reason, html |-> html, contentHtml |-> contentHtml,
     title |-> title, h1 |-> h1, image |-> image]

\* The first <img> of a page: kind "none" is a page without <img>, "nosrc"
\* an <img> without src, "badsrc" a src that new URL(src, url) rejects,
\* "throw" an image request that rejects, "http" an image response that is
\* not ok and "ok" an image response, `data` being its data URI.
Img(kind, reason, data) == [kind |-> kind, reason |-> reason, data |-> data]

NoImg == Img("none", "", "")

\* const title = $('title').first().text() || $('h1').first().text() || 'Untitled'
PageTitle(resp) ==
    IF resp.title # "" THEN resp.title
    ELSE IF resp.h1 # "" THEN resp.h1 ELSE "Untitled"

\* let firstImageDataUri: the data URI of an ok image response, undefined
\* ("") in every other case; the errors of the image are ignored.
FirstImageDataUri(img) == IF img.kind = "ok" THEN img.data ELSE ""

\* postProcessMarkdown(turndownService.turndown(contentHtml)) over the
\* content of the model: html that holds only white space converts to "".
Markdown(contentHtml) ==
    CASE contentHtml = "<p>Hello</p>" -> "Hello"
      [] contentHtml = "<p>World</p>" -> "World"
      [] OTHER -> ""

Failure(reason) ==
    [status |-> "failure", reason |-> reason, title |-> "", content |-> "",
     html |-> <<>>, image |-> ""]

Success(title, content, html, image) ==
    [status |-> "success", reason |-> "", title |-> title, content |-> content,
     html |-> html, image |-> image]

\* The exception of a call that has no handler around it.
Threw(reason) ==
    [status |-> "threw", reason |-> reason, title |-> "", content |-> "",
     html |-> <<>>, image |-> ""]

\* Mutant of FetchAndProcessUrl: the try/catch is lost, a rejected fetch throws.
FetchAndProcessUrlNoCatch(resp) ==
    CASE resp.kind = "throw" -> Threw(resp.reason)
      [] resp.kind = "http" -> Failure(resp.reason)
      [] resp.contentHtml = "" -> Failure("Main content not found after cleaning")
      [] OTHER -> Success(PageTitle(resp), Markdown(resp.contentHtml), resp.html,
                          FirstImageDataUri(resp.image))

\* Mutant of FetchAndProcessUrl: the image has no handler of its own, and its
\* exception is caught as a failure of the page.
FetchAndProcessUrlImageUncaught(resp) ==
    CASE resp.kind = "throw" -> Failure(resp.reason)
      [] resp.kind = "http" -> Failure(resp.reason)
      [] resp.image.kind \in {"badsrc", "throw"} -> Failure(resp.image.reason)
      [] resp.contentHtml = "" -> Failure("Main content not found after cleaning")
      [] OTHER -> Success(PageTitle(resp), Markdown(resp.contentHtml), resp.html,
                          FirstImageDataUri(resp.image))

\* Mutant of FetchAndProcessUrl: the content left is not tested.
FetchAndProcessUrlNoContentTest(resp) ==
    CASE resp.kind = "throw" -> Failure(resp.reason)
      [] resp.kind = "http" -> Failure(resp.reason)
      [] OTHER -> Success(PageTitle(resp), Markdown(resp.contentHtml), resp.html,
                          FirstImageDataUri(resp.image))

\* fetchAndProcessUrl(url)
FetchAndProcessUrl(resp) ==
    CASE resp.kind = "throw" -> Failure(resp.reason)
      [] resp.kind = "http" -> Failure(resp.reason)
      [] resp.contentHtml = "" -> Failure("Main content not found after cleaning")
      [] OTHER -> Success(PageTitle(resp), Markdown(resp.contentHtml), resp.html,
                          FirstImageDataUri(resp.image))

\* ---------------------------------------------------------------- the crawl loop
\* Mutant of LoopCondition: the page cap is checked one page late.
LoopConditionLateCap(queue, visited, cap) ==
    Len(queue) > 0 /\ Cardinality(visited) <= cap

\* Mutant of LoopCondition: the loop gives up after the first failure.
LoopConditionStopOnFailure(queue, visited, cap) ==
    Len(queue) > 0 /\ Cardinality(visited) < cap /\ failures = <<>>

\* while (urlQueue.length > 0 && visitedUrls.size < maxPages)
LoopCondition(queue, visited, cap) ==
    Len(queue) > 0 /\ Cardinality(visited) < cap

\* if (!currentUrl || attemptedUrls.has(currentUrl)) continue;
SkipUrl(url, attempted) == url = NoLink \/ url \in attempted

\* Mutant of MarkAttempted: the URL is not recorded.
MarkAttemptedForgets(attempted, url) == attempted

\* attemptedUrls.add(currentUrl)
MarkAttempted(attempted, url) == attempted \cup {url}

\* Mutant of MarkVisited: a failed URL counts as visited too.
MarkVisitedAlways(visited, url, result) == visited \cup {url}

\* if (result.status === 'success') visitedUrls.add(currentUrl)
MarkVisited(visited, url, result) ==
    IF result.status = "success" THEN visited \cup {url} ELSE visited

\* Mutant of NextCoverImage: the image of the latest page is kept.
NextCoverImageLatest(cover, image) == IF image # "" THEN image ELSE cover

\* if (!coverImage && image) coverImage = image;
NextCoverImage(cover, image) == IF cover = "" /\ image # "" THEN image ELSE cover

\* Mutant of PushResult: the record goes to the front of the list.
PushResultFront(res, url, result) ==
    IF result.content # ""
    THEN <<[url |-> url, title |-> result.title, content |-> result.content]>> \o res
    ELSE res

\* if (content) results.push({ url: currentUrl, title, content });
PushResult(res, url, result) ==
    IF result.content # ""
    THEN Append(res, [url |-> url, title |-> result.title, content |-> result.content])
    ELSE res

\* Mutant of BelowCap: successors are looked for on every success.
BelowCapAlways(visited, cap) == TRUE

\* if (visitedUrls.size < maxPages) { findSuccessorPages ... }
BelowCap(visited, cap) == Cardinality(visited) < cap

\* Mutant of PushLinks: the test is inverted and only attempted links are pushed.
PushLinksInverted(queue, attempted, links, i) ==
    queue \o SelectSeq(links, LAMBDA l : l \in attempted)

\* Mutant of PushLinks: a link is pushed whether or not the queue holds it.
PushLinksQueuedAgain(queue, attempted, links, i) ==
    queue \o SelectSeq(links, LAMBDA l : l \notin attempted)

RECURSIVE PushLinks(_, _, _, _)
\* for (const link of successorLinks)
\*   if (!attemptedUrls.has(link) && !urlQueue.includes(link)) urlQueue.push(link);
PushLinks(queue, attempted, links, i) ==
    IF i > Len(links) THEN queue
    ELSE PushLinks(IF links[i] \notin attempted /\ links[i] \notin Range(queue)
                   THEN Append(queue, links[i]) ELSE queue,
                   attempted, links, i + 1)

\* failures.push({ url: currentUrl, reason: result.reason })
PushFailure(fails, url, result) == Append(fails, [url |-> url, reason |-> result.reason])

\* ---------------------------------------------------------------- text
\* Where the characters of a string matter (tokenizing, joining, rewriting)
\* the string is the sequence of its characters.  Chars gives the characters
\* of the titles and contents of the model.
Chars(str) ==
    CASE str = "" -> <<>>
      [] str = " " -> <<" ">>
      [] str = "Guide" -> <<"G", "u", "i", "d", "e">>
      [] str = "Untitled" -> <<"U", "n", "t", "i", "t", "l", "e", "d">>
      [] str = "A B" -> <<"A", " ", "B">>
      [] str = "Hello" -> <<"H", "e", "l", "l", "o">>
      [] str = "World" -> <<"W", "o", "r", "l", "d">>
      [] str = "a\n\n---\n\nb. c" -> <<"a", "\n", "\n", "-", "-", "-", "\n", "\n", "b", ".", " ", "c">>

\* The characters of a URL string, one unit per component: no component
\* holds white space.
UrlText(url) == SelectSeq(<<url.origin, url.path, url.search, url.hash>>, LAMBDA c : c # "")

\* \s over the characters of the model.
IsSpace(c) == c \in {" ", "\n"}

RECURSIVE Split(_, _, _)
\* The maximal runs of characters that are not white space, from position i
\* on, `word` being the run in progress.
Split(text, i, word) ==
    IF i > Len(text) THEN (IF word = <<>> THEN <<>> ELSE <<word>>)
    ELSE IF IsSpace(text[i])
         THEN (IF word = <<>> THEN <<>> ELSE <<word>>) \o Split(text, i + 1, <<>>)
         ELSE Split(text, i + 1, Append(word, text[i]))

\* text.split(/\s+/).filter(Boolean)
Words(text) == Split(text, 1, <<>>)

RECURSIVE Join(_, _)
\* parts.join(sep)
Join(parts, sep) ==
    IF Len(parts) = 0 THEN <<>>
    ELSE IF Len(parts) = 1 THEN parts[1]
    ELSE parts[1] \o sep \o Join(Tail(parts), sep)

\* words.slice(0, n)
Slice(s, from, to) == SubSeq(s, from + 1, Min(to, Len(s)))

\* The character U+0060, which a string of this module cannot hold.
Backtick == "backtick"

Fence == <<Backtick, Backtick, Backtick>>

\* text.startsWith(pattern, i - 1)
OccursAt(text, pattern, i) ==
    /\ i + Len(pattern) - 1 <= Len(text)
    /\ SubSeq(text, i, i + Len(pattern) - 1) = pattern

RECURSIVE IndexOf(_, _, _)
\* The first position from i on where `pattern` occurs, 0 when there is none.
IndexOf(text, pattern, i) ==
    IF i + Len(pattern) - 1 > Len(text) THEN 0
    ELSE IF OccursAt(text, pattern, i) THEN i
    ELSE IndexOf(text, pattern, i + 1)

\* ---------------------------------------------------------------- postProcessMarkdown
\* The character U+00A0.
Nbsp == "nbsp"

RECURSIVE Segments(_, _)
\* md.split(/(```[\s\S]*?```)/g) from position i on: the text before a fenced
\* block, the block, and so on; the last segment is the text after the last
\* block.
Segments(text, i) ==
    LET open == IndexOf(text, Fence, i)
        close == IF open = 0 THEN 0 ELSE IndexOf(text, Fence, open + 3)
    IN IF close = 0 THEN <<SubSeq(text, i, Len(text))>>
       ELSE <<SubSeq(text, i, open - 1), SubSeq(text, open, close + 2)>>
                \o Segments(text, close + 3)

RECURSIVE Unescape(_, _, _)
\* text.replace(/\\(c1|c2|...)/g, '$1') from position i on, for the
\* characters of `escaped`.
Unescape(text, i, escaped) ==
    IF i > Len(text) THEN <<>>
    ELSE IF text[i] = "\\" /\ i < Len(text) /\ text[i + 1] \in escaped
         THEN <<text[i + 1]>> \o Unescape(text, i + 2, escaped)
         ELSE <<text[i]>> \o Unescape(text, i + 1, escaped)

\* .replace(/\u00A0/g, ' ')
ReplaceNbsp(text) == [i \in 1..Len(text) |-> IF text[i] = Nbsp THEN " " ELSE text[i]]

\* The length of the run of character c that starts at position i.
RECURSIVE RunLength(_, _, _)
RunLength(text, i, c) ==
    IF i > Len(text) \/ text[i] # c THEN 0 ELSE 1 + RunLength(text, i + 1, c)

RECURSIVE CollapseBlankLines(_, _)
\* .replace(/\n{3,}/g, '\n\n') from position i on.
CollapseBlankLines(text, i) ==
    IF i > Len(text) THEN <<>>
    ELSE LET run == RunLength(text, i, "\n")
         IN IF run >= 3 THEN <<"\n", "\n">> \o CollapseBlankLines(text, i + run)
            ELSE <<text[i]>> \o CollapseBlankLines(text, i + 1)

\* Position i is `$` under the m flag: the end of the text or of a line.
IsLineEnd(text, i) == i > Len(text) \/ text[i] = "\n"

\* Position i is `^` under the m flag: the start of the text or of a line.
IsLineStart(text, i) == i = 1 \/ text[i - 1] = "\n"

\* / {3,}$/ matches at position i: three spaces or more up to the end of the line.
TrailingSpacesAt(text, i) ==
    LET run == RunLength(text, i, " ")
    IN run >= 3 /\ IsLineEnd(text, i + run)

RECURSIVE TrimTrailingSpaces(_, _)
\* .replace(/(^|[^ ]) {3,}$/gm, (m) => m.trimEnd()) from position i on.  A
\* match is the spaces alone when they start the text, and else the
\* character before them with the spaces; trimEnd takes the spaces, and the
\* character before them too when it is white space (a line break).
TrimTrailingSpaces(text, i) ==
    IF i > Len(text) THEN <<>>
    ELSE IF text[i] = " " /\ IsLineStart(text, i) /\ TrailingSpacesAt(text, i)
         THEN TrimTrailingSpaces(text, i + RunLength(text, i, " "))
    ELSE IF text[i] # " " /\ TrailingSpacesAt(text, i + 1)
         THEN (IF IsSpace(text[i]) THEN <<>> ELSE <<text[i]>>)
                  \o TrimTrailingSpaces(text, i + 1 + RunLength(text, i + 1, " "))
    ELSE <<text[i]>> \o TrimTrailingSpaces(text, i + 1)

RECURSIVE BlankLineBeforeFence(_, _)
\* .replace(/([^\n])\n```/g, '$1\n\n```') from position i on.
BlankLineBeforeFence(text, i) ==
    IF i > Len(text) THEN <<>>
    ELSE IF text[i] # "\n" /\ OccursAt(text, <<"\n">> \o Fence, i + 1)
         THEN <<text[i], "\n", "\n">> \o Fence \o BlankLineBeforeFence(text, i + 5)
         ELSE <<text[i]>> \o BlankLineBeforeFence(text, i + 1)

\* The rewriting of a segment that does not start with a fence.
NormalizeOutside(seg) ==
    Unescape(
        BlankLineBeforeFence(
            TrimTrailingSpaces(CollapseBlankLines(ReplaceNbsp(seg), 1), 1), 1),
        1, {"_"})

\* The rewriting of a segment that starts with a fence.
UnescapeInFence(seg) == Unescape(seg, 1, {"_", "*", Backtick})

\* Mutant of PostProcessMarkdown: the text is not split at the fences.
PostProcessMarkdownNoSplit(text) == NormalizeOutside(text)

\* postProcessMarkdown(md)
PostProcessMarkdown(text) ==
    LET segments == Segments(text, 1)
    IN Join([k \in 1..Len(segments) |->
                IF OccursAt(segments[k], Fence, 1) THEN UnescapeInFence(segments[k])
                ELSE NormalizeOutside(segments[k])], <<>>)

\* ---------------------------------------------------------------- sections and index
\* `## ${page.title}\n\nURL: ${page.url}\n\n${page.content}`
Section(page) ==
    <<"#", "#", " ">> \o Chars(page.title) \o <<"\n", "\n", "U", "R", "L", ":", " ">>
        \o UrlText(page.url) \o <<"\n", "\n">> \o Chars(page.content)

\* results.map(page => ({ title, url, section }))
PageSections(res) ==
    [i \in 1..Len(res) |->
        [title |-> res[i].title, url |-> res[i].url, section |-> Section(res[i])]]

\* Mutant of Separator: a rule that reads as two tokens.
SeparatorTwoTokens == <<"\n", "\n", "-", " ", "-", "\n", "\n">>

\* const separator = '\n\n---\n\n'
Separator == <<"\n", "\n", "-", "-", "-", "\n", "\n">>

\* const sepWordCost = 1
SepWordCost == 1

RECURSIVE SpansNoSeparator(_, _, _, _)
\* Mutant of Spans: the separators before a section are not counted.
SpansNoSeparator(sections, idx, cumulativeWords, spans) ==
    IF idx >= Len(sections) THEN spans
    ELSE LET wordCount == Len(Words(sections[idx + 1].section))
             start == cumulativeWords
             end == start + wordCount
         IN SpansNoSeparator(sections, idx + 1, cumulativeWords + wordCount,
                             Append(spans, [title |-> sections[idx + 1].title,
                                            start |-> start, end |-> end]))

RECURSIVE Spans(_, _, _, _)
\* pageSections.forEach((p, idx) => { ... spans.push({ title, start, end }) }),
\* idx counting from 0.
Spans(sections, idx, cumulativeWords, spans) ==
    IF idx >= Len(sections) THEN spans
    ELSE LET wordCount == Len(Words(sections[idx + 1].section))
             start == cumulativeWords + (idx * SepWordCost)
             end == start + wordCount
         IN Spans(sections, idx + 1, cumulativeWords + wordCount,
                  Append(spans, [title |-> sections[idx + 1].title,
                                 start |-> start, end |-> end]))

\* The lines of the index table, as their columns: #, start, end, len, title.
IndexLines(spans) ==
    [i \in 1..Len(spans) |->
        [pageNumber |-> i, startWord |-> spans[i].start, endWord |-> spans[i].end,
         lengthWords |-> spans[i].end - spans[i].start, title |-> spans[i].title]]

\* pageSections.map(p => p.section).join(separator)
AggregatedContent(sections) ==
    Join([i \in 1..Len(sections) |-> sections[i].section], Separator)

\* ---------------------------------------------------------------- parseContentToSections
\* The delimiter the parser splits at, '\n\n---\n\n'.
SectionDelimiter == <<"\n", "\n", "-", "-", "-", "\n", "\n">>

RECURSIVE SplitOn(_, _, _, _)
\* text.split(sep) for a separator string: the pieces between the occurrences
\* of sep found from left to right, `piece` being the piece in progress.
SplitOn(text, sep, i, piece) ==
    IF i > Len(text) THEN <<piece>>
    ELSE IF OccursAt(text, sep, i)
         THEN <<piece>> \o SplitOn(text, sep, i + Len(sep), <<>>)
         ELSE SplitOn(text, sep, i + 1, Append(piece, text[i]))

\* line.match(/^<prefix>(.*)/): the rest of the line, a line holding no line
\* break; `orElse` when the line is missing or does not start with the prefix.
MatchAfter(lines, n, prefix, orElse) ==
    IF n <= Len(lines) /\ OccursAt(lines[n], prefix, 1)
    THEN SubSeq(lines[n], Len(prefix) + 1, Len(lines[n]))
    ELSE orElse

\* One section of the parser: title from the first line, url from the second,
\* content from the fourth line on.
ParsedSection(sectionText) ==
    LET lines == SplitOn(sectionText, <<"\n">>, 1, <<>>)
    IN [title |-> MatchAfter(lines, 1, <<"#", "#", " ">>, <<"C", "o", "n", "t", "e", "n", "t">>),
        url |-> MatchAfter(lines, 2, <<"U", "R", "L", ":", " ">>, <<>>),
        content |-> Join(SubSeq(lines, 4, Len(lines)), <<"\n">>)]

\* parseContentToSections(content)
ParseContentToSections(content) ==
    IF content = <<>> THEN <<>>
    ELSE LET texts == SplitOn(content, SectionDelimiter, 1, <<>>)
         IN [k \in 1..Len(texts) |-> ParsedSection(texts[k])]

\* ---------------------------------------------------------------- the document title
\* An optional string: `given` is FALSE for undefined.
Undefined == [given |-> FALSE, value |-> ""]

Supplied(str) == [given |-> TRUE, value |-> str]

\* The truthiness of an optional string: undefined and "" are falsy.
Truthy(opt) == opt.given /\ opt.value # ""

\* url.hostname.split('.') over the hosts of the model.
HostnameSplit(origin) ==
    CASE origin = "http://x.dev" -> <<"x", "dev">>
      [] origin = "https://www.example.com" -> <<"www", "example", "com">>
      [] origin = "https://fastapi.tiangolo.com" -> <<"fastapi", "tiangolo", "com">>
      [] origin = "https://docs.example.com" -> <<"docs", "example", "com">>
      [] origin = "http://localhost" -> <<"localhost">>
      [] origin = "http://www.localhost" -> <<"www", "localhost">>

\* url.pathname.split('/') over the paths of the model.
PathnameSplit(path) ==
    CASE path = "/" -> <<"", "">>
      [] path = "/a" -> <<"", "a">>
      [] path = "/docs" -> <<"", "docs">>
      [] path = "/docs/" -> <<"", "docs", "">>
      [] path = "/tutorial/intro" -> <<"", "tutorial", "intro">>
      [] path = "/guide/Index" -> <<"", "guide", "Index">>

\* /^(docs|documentation|index|home)$/i.test(segment)
IsGenericSegment(segment) == LowerCase(segment) \in {"docs", "documentation", "index", "home"}

\* hostSegments.join(' ') where it is evaluated: at most one segment is left.
HostJoin(hostSegments) == IF Len(hostSegments) = 0 THEN "" ELSE hostSegments[1]

\* Mutant of DocumentationTitle: the host is preferred to the path.
DocumentationTitleHostFirst(start, existing) ==
    IF Truthy(existing) THEN existing.value
    ELSE LET url == ParseUrl(start)
             pathSegments == SelectSeq(PathnameSplit(url.path), LAMBDA s : s # "")
             hostSegments == SelectSeq(HostnameSplit(url.origin), LAMBDA s : s # "www")
         IN IF Len(hostSegments) > 1 THEN hostSegments[Len(hostSegments) - 1]
            ELSE IF Len(pathSegments) > 0 THEN pathSegments[1]
            ELSE HostJoin(hostSegments)

\* let documentationTitle = 'Documentation'; if (existingTitle) ... else ...
\* startUrl has passed the schema of the flow, so `new URL(startUrl)` does
\* not throw.
DocumentationTitle(start, existing) ==
    IF Truthy(existing) THEN existing.value
    ELSE LET url == ParseUrl(start)
             pathSegments == SelectSeq(PathnameSplit(url.path), LAMBDA s : s # "")
             hostSegments == SelectSeq(HostnameSplit(url.origin), LAMBDA s : s # "www")
             lastPathSegment == IF Len(pathSegments) = 0 THEN ""
                                ELSE pathSegments[Len(pathSegments)]
         IN IF lastPathSegment # "" /\ ~IsGenericSegment(lastPathSegment)
            THEN lastPathSegment
            ELSE IF Len(hostSegments) > 1 THEN hostSegments[Len(hostSegments) - 1]
            ELSE IF Len(pathSegments) > 0 THEN pathSegments[1]
            ELSE HostJoin(hostSegments)

\* ---------------------------------------------------------------- the description
RECURSIVE StripFences(_, _)
\* text.replace(/```[\s\S]*?```/g, ' '), from position i on.
StripFences(text, i) ==
    LET open == IndexOf(text, Fence, i)
        close == IF open = 0 THEN 0 ELSE IndexOf(text, Fence, open + 3)
    IN IF close = 0 THEN SubSeq(text, i, Len(text))
       ELSE SubSeq(text, i, open - 1) \o <<" ">> \o StripFences(text, close + 3)

\* const MAX_CHARS = 2500
MAX_CHARS == 2500

\* The sanitized snippet: fenced code out, white space collapsed, trimmed and
\* cut at MAX_CHARS.  No text of the model holds a <code> element.
Snippet(aggregatedContent) ==
    Slice(Join(Words(StripFences(aggregatedContent, 1)), <<" ">>), 0, MAX_CHARS)

\* The language guess over the texts of the model, none of which holds one
\* of the code patterns.
LangGuess(snippet) == "multi-language"

\* snippet.split('. ')[0]
FirstSentence(snippet) ==
    LET dot == IndexOf(snippet, <<".", " ">>, 1)
    IN IF dot = 0 THEN snippet ELSE SubSeq(snippet, 1, dot - 1)

\* heuristicDescription(snippet, resultsCount, startUrl); the name, the
\* weight and the language are one unit each.
HeuristicDescription(snippet, resultsCount, start) ==
    LET weight == IF resultsCount > 12 \/ Len(snippet) > 1800 THEN "feature-rich"
                  ELSE IF resultsCount > 5 THEN "moderate" ELSE "lightweight"
        u == ParseUrl(start)
        segs == SelectSeq(PathnameSplit(u.path), LAMBDA s : s # "")
        host == HostnameSplit(u.origin)
        nameGuess == IF Len(segs) > 0 THEN segs[Len(segs)]
                     ELSE IF Len(host) > 1 THEN host[Len(host) - 1] ELSE ""
        base == <<IF nameGuess # "" THEN nameGuess ELSE "library", ":", " ", weight, " ",
                  LangGuess(snippet), " ", "d", "o", "c", "s">>
        plain == SelectSeq(FirstSentence(snippet), LAMBDA c : c \notin {"#", "*", "_", Backtick})
        sentence == Join(Slice(Words(plain), 0, 18), <<" ">>)
    IN Join(Slice(Words(base \o <<".", " ">> \o sentence), 0, 30), <<" ">>)

\* What generateFastDescription gives: undefined, a string, or (in a
\* variant without handlers) an exception.
NoDescription == [kind |-> "undefined", value |-> <<>>]

Described(text) == [kind |-> "string", value |-> text]

DescriptionThrew == [kind |-> "threw", value |-> <<>>]

\* What the description prompt does: "initThrows" is an exception while the
\* prompt is made or called, "rejects" a rejected promise, "timeout" no
\* answer within TIMEOUT_MS, "noOutput" an answer without output and
\* "answers" an answer with a summary.
Summarizer(kind, summary) == [kind |-> kind, summary |-> summary]

\* Mutant of GenerateFastDescription: neither the .catch nor the try/catch.
GenerateFastDescriptionNoCatch(outcome, aggregatedContent, resultsCount, start) ==
    LET snippet == Snippet(aggregatedContent)
    IN CASE snippet = <<>> -> NoDescription
         [] outcome.kind \in {"initThrows", "rejects"} -> DescriptionThrew
         [] outcome.kind = "answers" /\ outcome.summary # <<>> ->
                Described(Join(Slice(Words(outcome.summary), 0, 30), <<" ">>))
         [] OTHER -> Described(HeuristicDescription(snippet, resultsCount, start))

\* generateFastDescription({ aggregatedContent, resultsCount, startUrl })
GenerateFastDescription(outcome, aggregatedContent, resultsCount, start) ==
    LET snippet == Snippet(aggregatedContent)
    IN CASE snippet = <<>> -> NoDescription
         [] outcome.kind = "initThrows" ->
                Described(HeuristicDescription(Slice(aggregatedContent, 0, 800),
                                               resultsCount, start))
         [] outcome.kind = "answers" /\ outcome.summary # <<>> ->
                Described(Join(Slice(Words(outcome.summary), 0, 30), <<" ">>))
         [] OTHER -> Described(HeuristicDescription(snippet, resultsCount, start))

\* const aiDescription = existingTitle ? undefined : await generateFastDescription(...)
AiDescription(res, start, existing, outcome) ==
    IF Truthy(existing) THEN NoDescription
    ELSE GenerateFastDescription(outcome, AggregatedContent(PageSections(res)),
                                 Len(res), start)

\* if (results.length === 0) return []; ... return [docRecord];
FlowOutput(res, start, cover, existing, description) ==
    IF Len(res) = 0 THEN <<>>
    ELSE LET pageSections == PageSections(res)
         IN <<[url |-> start,
               title |-> DocumentationTitle(start, existing),
               content |-> AggregatedContent(pageSections),
               image |-> cover,
               aiDescription |-> description,
               indexPage |-> IndexLines(Spans(pageSections, 0, 0, <<>>)),
               pages |-> [i \in 1..Len(pageSections) |-> pageSections[i].section]]>>

\* ---------------------------------------------------------------- the documents table
\* A row of the table; image, aiHint, hashtags and lastUpdated are left out.
Row(id, doc, uid) ==
    [id |-> id, url |-> doc.url, title |-> doc.title, content |-> doc.content,
     schedule |-> doc.schedule, maxPages |-> doc.maxPages, doc_uid |-> uid]

\* url TEXT NOT NULL UNIQUE, doc_uid TEXT UNIQUE: the statement that would
\* leave `row` in the table beside `rows` fails.
ConstraintFails(rows, row) ==
    \E r \in rows : r.id # row.id /\ (r.url = row.url \/ r.doc_uid = row.doc_uid)

\* genUniqueShortId(): the ids the loop can return when nano() draws from
\* `pool`, an id no row has.
GenUniqueShortId(rows, pool) == pool \ {r.doc_uid : r \in rows}

\* INSERT INTO documents (...) VALUES (...): the table and the sequence
\* after the statement, unchanged when it throws.
Insert(rows, seq, doc, uid) ==
    LET row == Row(seq + 1, doc, uid)
    IN IF ConstraintFails(rows, row) THEN [rows |-> rows, seq |-> seq, ok |-> FALSE]
       ELSE [rows |-> rows \cup {row}, seq |-> seq + 1, ok |-> TRUE]

\* Mutant of UpdatedRow: the row is written whole from the document given,
\* its doc_uid included.
UpdatedRowWithUid(row, doc) == Row(row.id, doc, doc.doc_uid)

\* UPDATE documents SET title = ?, url = ?, ..., maxPages = ? WHERE id = ?
UpdatedRow(row, doc) == Row(row.id, doc, row.doc_uid)

\* updateDocument(doc): the table after the UPDATE, unchanged when no row has
\* the id or when the statement throws.
Update(rows, doc) ==
    LET hit == {r \in rows : r.id = doc.id}
        after == (rows \ hit) \cup {UpdatedRow(r, doc) : r \in hit}
    IN IF \E r \in after : ConstraintFails(after, r) THEN rows ELSE after

\* updateDocumentSchedule(id, schedule, maxPages): maxPages 0 is undefined.
UpdateSchedule(rows, id, schedule, pages) ==
    {IF r.id # id THEN r
     ELSE IF pages # 0 THEN [r EXCEPT !.schedule = schedule, !.maxPages = pages]
     ELSE [r EXCEPT !.schedule = schedule] : r \in rows}

\* DELETE FROM documents WHERE id = ?
Delete(rows, id) == {r \in rows : r.id # id}

\* ---------------------------------------------------------------- fetch_doc_content
\* const maxCap = 50000.  The handler compares word counts with the cap and
\* takes minima with it, and does nothing else with its value: the model
\* counts with a small cap, so that sections and contents longer than the
\* cap are among those requested.
MaxCap == 5

\* The max_length of a request that gives none: 10000 in the code, which is
\* below the cap, as it is here.
DefaultMaxLength == 2

\* A query parameter: kind "absent" is a URL without it, "empty" the value
\* "", "nan" a text parseInt gives NaN for, "int" a text parseInt reads n from.
QueryParam(kind, n) == [kind |-> kind, n |-> n]

\* url.searchParams.has(name)
HasParam(param) == param.kind # "absent"

\* parseInt(url.searchParams.get(name) || String(orElse), 10); nan is NaN.
ParseInt(param, orElse) ==
    CASE param.kind = "int" -> [nan |-> FALSE, n |-> param.n]
      [] param.kind = "nan" -> [nan |-> TRUE, n |-> 0]
      [] OTHER -> [nan |-> FALSE, n |-> orElse]

\* const start = isNaN(startParam) || startParam < 0 ? 0 : startParam
StartOf(param) ==
    LET startParam == ParseInt(param, 0)
    IN IF startParam.nan \/ startParam.n < 0 THEN 0 ELSE startParam.n

\* Mutant of MaxLengthOf: the cap is not applied.
MaxLengthUncapped(param) ==
    LET maxLengthParam == ParseInt(param, DefaultMaxLength)
    IN IF maxLengthParam.nan \/ maxLengthParam.n <= 0 THEN DefaultMaxLength
       ELSE maxLengthParam.n

\* const maxLength = isNaN(maxLengthParam) || maxLengthParam <= 0
\*                       ? 10000 : Math.min(maxLengthParam, maxCap)
MaxLengthOf(param) ==
    LET maxLengthParam == ParseInt(param, DefaultMaxLength)
    IN IF maxLengthParam.nan \/ maxLengthParam.n <= 0 THEN DefaultMaxLength
       ELSE Min(maxLengthParam.n, MaxCap)

\* content.split(/\s+/): the words, and an empty string before them when the
\* text starts with white space (or is empty) and after them when it ends
\* with white space.
SplitWhitespace(text) ==
    (IF text = <<>> \/ IsSpace(text[1]) THEN << <<>> >> ELSE <<>>)
        \o Words(text)
        \o (IF text # <<>> /\ IsSpace(text[Len(text)]) THEN << <<>> >> ELSE <<>>)

\* An answer that is an error: NextResponse.json({ error }, { status })
ErrorResponse(status, error) == [status |-> status, mode |-> "error", error |-> error]

\* The answer when no document has the id.
NotFound == ErrorResponse(404, "Not found")

\* The value of next_start when there is no next page (null, or no key).
NoNextStart == -1

\* Mutant of SingleRange: has_more is also true when the slice ends at the
\* last word.
SingleRangeOneMore(content, start, maxLength) ==
    LET words == SplitWhitespace(content)
        totalWords == Len(words)
        endExclusive == Min(start + maxLength, totalWords)
    IN IF start >= totalWords
       THEN [status |-> 200, mode |-> "single", content |-> <<>>,
             total_words |-> totalWords, returned_words |-> 0, start |-> start,
             max_length |-> maxLength, end |-> start, has_more |-> FALSE,
             next_start |-> NoNextStart]
       ELSE [status |-> 200, mode |-> "single",
             content |-> Join(SubSeq(words, start + 1, endExclusive), <<" ">>),
             total_words |-> totalWords, returned_words |-> endExclusive - start,
             start |-> start, max_length |-> maxLength, end |-> endExclusive,
             has_more |-> endExclusive <= totalWords,
             next_start |-> IF endExclusive <= totalWords THEN endExclusive
                            ELSE NoNextStart]

\* The legacy single range: words [start, start + maxLength) of the content.
SingleRange(content, start, maxLength) ==
    LET words == SplitWhitespace(content)
        totalWords == Len(words)
        endExclusive == Min(start + maxLength, totalWords)
    IN IF start >= totalWords
       THEN [status |-> 200, mode |-> "single", content |-> <<>>,
             total_words |-> totalWords, returned_words |-> 0, start |-> start,
             max_length |-> maxLength, end |-> start, has_more |-> FALSE,
             next_start |-> NoNextStart]
       ELSE [status |-> 200, mode |-> "single",
             content |-> Join(SubSeq(words, start + 1, endExclusive), <<" ">>),
             total_words |-> totalWords, returned_words |-> endExclusive - start,
             start |-> start, max_length |-> maxLength, end |-> endExclusive,
             has_more |-> endExclusive < totalWords,
             next_start |-> IF endExclusive < totalWords THEN endExclusive
                            ELSE NoNextStart]

\* One part of the ranges parameter, trimmed: kind "range" is a text that
\* matches /^(\d+)-(\d+)$/, the numbers being s and e; "junk" is any other.
RangePart(kind, s, e) == [kind |-> kind, s |-> s, e |-> e]

\* The ranges parameter: kind "absent" is a URL without it or with ranges="",
\* kind "text" a text whose non-empty parts between commas are `parts`.
RangesParam(kind, parts) == [kind |-> kind, parts |-> parts]

WordRange(s, e) == [start |-> s, end |-> e]

\* if (!m) continue; if (... || e <= s) continue; if (s >= totalWords) continue;
IsValidPart(part, totalWords) ==
    part.kind = "range" /\ ~(part.e <= part.s) /\ ~(part.s >= totalWords)

\* The loop over rangeParts: requested.push({ start: s, end: Math.min(e, totalWords) })
Requested(parts, totalWords) ==
    LET valid == SelectSeq(parts, LAMBDA part : IsValidPart(part, totalWords))
    IN [k \in 1..Len(valid) |-> WordRange(valid[k].s, Min(valid[k].e, totalWords))]

RECURSIVE SortByStart(_)
\* requested.sort((a, b) => a.start - b.start): a stable sort.
SortByStart(ranges) ==
    IF Len(ranges) <= 1 THEN ranges
    ELSE LET sorted == SortByStart(SubSeq(ranges, 1, Len(ranges) - 1))
             r == ranges[Len(ranges)]
             before == SelectSeq(sorted, LAMBDA x : x.start <= r.start)
             after == SelectSeq(sorted, LAMBDA x : x.start > r.start)
         IN before \o <<r>> \o after

RECURSIVE MergeNoAdjacent(_, _, _)
\* Mutant of Merge: a range that starts where the last one ends is kept apart.
MergeNoAdjacent(requested, i, merged) ==
    IF i > Len(requested) THEN merged
    ELSE LET r == requested[i]
             n == Len(merged)
         IN MergeNoAdjacent(requested, i + 1,
                IF n = 0 \/ r.start >= merged[n].end THEN Append(merged, r)
                ELSE IF r.end > merged[n].end THEN [merged EXCEPT ![n].end = r.end]
                ELSE merged)

RECURSIVE Merge(_, _, _)
\* for (const r of requested) {
\*   if (!last || r.start > last.end) merged.push({ ...r });
\*   else if (r.end > last.end) last.end = r.end; }
Merge(requested, i, merged) ==
    IF i > Len(requested) THEN merged
    ELSE LET r == requested[i]
             n == Len(merged)
         IN Merge(requested, i + 1,
                IF n = 0 \/ r.start > merged[n].end THEN Append(merged, r)
                ELSE IF r.end > merged[n].end THEN [merged EXCEPT ![n].end = r.end]
                ELSE merged)

RECURSIVE TotalWords(_, _)
\* ranges.reduce((acc, r) => acc + (r.end - r.start), 0), from range i on.
TotalWords(ranges, i) ==
    IF i > Len(ranges) THEN 0 ELSE (ranges[i].end - ranges[i].start) + TotalWords(ranges, i + 1)

RECURSIVE NewlineBefore(_, _)
\* The white space that ends at position j holds a line break.
NewlineBefore(text, j) ==
    /\ j >= 1
    /\ IsSpace(text[j])
    /\ (text[j] = "\n" \/ NewlineBefore(text, j - 1))

RECURSIVE NewlineAfter(_, _)
\* The white space that starts at position j holds a line break.
NewlineAfter(text, j) ==
    /\ j <= Len(text)
    /\ IsSpace(text[j])
    /\ (text[j] = "\n" \/ NewlineAfter(text, j + 1))

RECURSIVE Breaks(_, _, _, _)
\* The positions lo..hi, in order, where a match of /\n\s*\n/ starts (the
\* first line break of a run of white space that holds two or more) or
\* ends (the last line break of such a run).
Breaks(text, side, lo, hi) ==
    IF lo > hi THEN <<>>
    ELSE IF lo = hi
         THEN IF /\ text[lo] = "\n"
                 /\ IF side = "start"
                    THEN ~NewlineBefore(text, lo - 1) /\ NewlineAfter(text, lo + 1)
                    ELSE NewlineBefore(text, lo - 1) /\ ~NewlineAfter(text, lo + 1)
              THEN <<lo>> ELSE <<>>
         ELSE LET mid == (lo + hi) \div 2
              IN Breaks(text, side, lo, mid) \o Breaks(text, side, mid + 1, hi)

\* content.split(/\n\s*\n/)
Paragraphs(text) ==
    LET starts == Breaks(text, "start", 1, Len(text))
        ends == Breaks(text, "end", 1, Len(text))
    IN [k \in 1..(Len(starts) + 1) |->
           SubSeq(text, IF k = 1 THEN 1 ELSE ends[k - 1] + 1,
                        IF k > Len(starts) THEN Len(text) ELSE starts[k] - 1)]

RECURSIVE ParaMeta(_, _, _)
\* paraMeta: index (from 0), word span and text of every paragraph.
ParaMeta(paragraphs, i, cursor) ==
    IF i > Len(paragraphs) THEN <<>>
    ELSE LET wCount == Len(Words(paragraphs[i]))
         IN <<[index |-> i - 1, start |-> cursor, end |-> cursor + wCount,
               text |-> paragraphs[i]]>>
            \o ParaMeta(paragraphs, i + 1, cursor + wCount)

\* The paragraphs that share a word position with a merged range, or that
\* are empty and lie inside one; the inner loop stops at the first
\* paragraph that starts at or after the end of the range, and all later
\* ones start no earlier.
SelectedParas(paraMeta, merged) ==
    SelectSeq(paraMeta, LAMBDA pm :
        \E k \in 1..Len(merged) :
            ~(pm.end <= merged[k].start) /\ ~(pm.start >= merged[k].end))

\* Multi-range mode.
MultiRange(content, parts) ==
    LET totalWords == Len(SplitWhitespace(content))
        requested == SortByStart(Requested(parts, totalWords))
        merged == Merge(requested, 1, <<>>)
        selectedParas == SelectedParas(ParaMeta(Paragraphs(content), 1, 0), merged)
    IN IF Len(requested) = 0 THEN ErrorResponse(400, "No valid ranges")
       ELSE IF TotalWords(merged, 1) > MaxCap
       THEN ErrorResponse(400, "Requested ranges exceed cap")
       ELSE [status |-> 200, mode |-> "multi",
             content |-> Join([k \in 1..Len(selectedParas) |-> selectedParas[k].text],
                              <<"\n", "\n">>),
             total_words |-> totalWords,
             requested_ranges |-> requested,
             merged_ranges |-> merged,
             paragraphs |-> [k \in 1..Len(selectedParas) |->
                                [index |-> selectedParas[k].index,
                                 start |-> selectedParas[k].start,
                                 end |-> selectedParas[k].end]],
             total_returned_words |->
                 TotalWords([k \in 1..Len(selectedParas) |->
                                WordRange(selectedParas[k].start, selectedParas[k].end)], 1)]

\* What getDocumentationById and getDocumentationByName give: no document,
\* or the row found.
NoDocument == [found |-> FALSE, content |-> <<>>]

FoundDocument(content) == [found |-> TRUE, content |-> content]

\* A request: the parameters start, max_length and ranges.
Request(start, maxLength, ranges) ==
    [start |-> start, max_length |-> maxLength, ranges |-> ranges]

\* GET fetch_doc_content/:id.  The index mode answers from the index page in
\* storage, which is there for a document with an index; the rows of the
\* table are not part of the answer modelled.
Get(row, req) ==
    IF ~row.found THEN NotFound
    ELSE IF req.ranges.kind = "absent" /\ ~HasParam(req.start) /\ ~HasParam(req.max_length)
    THEN [status |-> 200, mode |-> "index"]
    ELSE IF req.ranges.kind # "absent"
    THEN MultiRange(row.content, req.ranges.parts)
    ELSE SingleRange(row.content, StartOf(req.start), MaxLengthOf(req.max_length))

\* ---------------------------------------------------------------- the job store
\* A job as handleScrapeRequest and the effect that reads updateUrl make it;
\* updateId 0 is undefined, error "" is no error, result <<>> is no result.
\* The id stands for `${Date.now()}-${Math.random()}-${url}`.
Job(id, url, pages, isUpdate, updateId, schedule, existing, provider, message) ==
    [id |-> id, url |-> url, maxPages |-> pages, status |-> "scraping", progress |-> 0,
     message |-> message, result |-> <<>>, error |-> "", isUpdate |-> isUpdate,
     updateId |-> updateId, schedule |-> schedule, existingTitle |-> existing,
     provider |-> provider]

\* { ...j, ...updates }
Spread(j, updates) ==
    [f \in DOMAIN j |-> IF f \in DOMAIN updates THEN updates[f] ELSE j[f]]

\* Mutant of UpdateJob: the updates are written into every job of the list.
UpdateJobEveryJob(jobList, id, updates) ==
    [k \in 1..Len(jobList) |-> Spread(jobList[k], updates)]

\* updateJob(id, updates): prev.map(j => (j.id === id ? { ...j, ...updates } : j))
UpdateJob(jobList, id, updates) ==
    [k \in 1..Len(jobList) |->
        IF jobList[k].id = id THEN Spread(jobList[k], updates) ELSE jobList[k]]

\* The store: state.jobs, and what notify() told the listeners of each job.
Store(jobList, told) == [jobs |-> jobList, notified |-> told]

\* notify() after a call of setJobs that wrote the job `id`: the listeners
\* get the list, and with it the status and progress of the job when it is
\* in the list.
Told(store, id) ==
    LET hit == SelectSeq(store.jobs, LAMBDA j : j.id = id)
    IN IF hit = <<>> THEN store.notified
       ELSE [store.notified EXCEPT
                ![id] = Append(@, [status |-> hit[1].status, progress |-> hit[1].progress])]

\* updateJob(id, updates) of the page: setJobs with the mapped list, notify.
StoreUpdateJob(store, id, updates) ==
    LET after == UpdateJob(store.jobs, id, updates)
    IN Store(after, Told(Store(after, store.notified), id))

\* ---------------------------------------------------------------- runJob
\* The updates runJob writes.
Fetching ==
    [status |-> "scraping", progress |-> 10, message |-> "Fetching and parsing content..."]

ContentParsed ==
    [status |-> "scraping", progress |-> 50, message |-> "Content parsed successfully."]

GeneratingHashtags ==
    [status |-> "generating_hashtags", progress |-> 75, message |-> "Generating AI hashtags..."]

Complete(job, finalDoc) ==
    [status |-> "complete", progress |-> 100,
     message |-> IF job.isUpdate THEN "Update complete!" ELSE "Documentation complete!",
     result |-> <<finalDoc>>]

\* Mutant of Failed: the progress is left as it is.
FailedAsIs(errorMessage) ==
    [status |-> "failed", message |-> "Scraping failed.", error |-> errorMessage]

Failed(errorMessage) ==
    [status |-> "failed", progress |-> 100, message |-> "Scraping failed.",
     error |-> errorMessage]

\* A value thrown: an Error with a message, or another value.
ThrownError(message) == [isError |-> TRUE, message |-> message]

ThrownValue == [isError |-> FALSE, message |-> ""]

\* throw new Error("Could not find any content at the specified URL.")
NoContentFound == ThrownError("Could not find any content at the specified URL.")

\* Mutant of ErrorMessage: the message of the error is not read.
ErrorMessageUnknown(error) == "An unknown error occurred."

\* error instanceof Error ? error.message : "An unknown error occurred."
ErrorMessage(error) ==
    IF error.isError THEN error.message ELSE "An unknown error occurred."

\* getCurrentProvider(): localStorage.getItem('docuscribe:provider') || 'gemini'
CurrentProviders == {"gemini"}

\* A call of runJob: the job object it was given, the call it awaits
\* ("scrapeUrl", "generateHashtags", "getDocuments", "updateDocument",
\* "addDocument") or "done", the calls it made, the results of scrapeUrl
\* (<<>> before it returns) and the document it built (<<>> before).
Run(job, at, calls, scraped, doc) ==
    [job |-> job, pc |-> at, calls |-> calls, results |-> scraped, docData |-> doc]

\* The run awaits the call `name`.
Awaiting(run, name) == [run EXCEPT !.pc = name, !.calls = Append(@, name)]

\* What a turn of runJob leaves: the store and the run.
Turn(store, run) == [store |-> store, run |-> run]

\* catch (error) { ... updateJob(job.id, { status: 'failed', ... }) }
Caught(store, run, error) ==
    Turn(StoreUpdateJob(store, run.job.id, Failed(ErrorMessage(error))),
         [run EXCEPT !.pc = "done"])

\* What a call gives: an exception, or a value.
Throws(error) == [threw |-> TRUE, error |-> error, value |-> <<>>]

Gives(value) == [threw |-> FALSE, error |-> ThrownValue, value |-> value]

\* runJob from the return of scrapeUrl to the call of generateHashtags.
AfterScrapeUrl(store, run, outcome) ==
    IF outcome.threw THEN Caught(store, run, outcome.error)
    ELSE LET scraped == [run EXCEPT !.results = <<outcome.value>>] IN
         IF Len(outcome.value) = 0 THEN Caught(store, scraped, NoContentFound)
         ELSE LET id == run.job.id
                  parsed == StoreUpdateJob(store, id, ContentParsed)
                  generating == StoreUpdateJob(parsed, id, GeneratingHashtags)
                  p == CHOOSE provider \in CurrentProviders : TRUE
              IN IF run.job.provider = ""
                 THEN Turn(StoreUpdateJob(generating, id, [provider |-> p]),
                           Awaiting([scraped EXCEPT !.job.provider = p], "generateHashtags"))
                 ELSE Turn(generating, Awaiting(scraped, "generateHashtags"))

\* const docData = { url, title, content, ..., schedule: job.schedule,
\* maxPages: job.maxPages }; the columns the model of the table leaves out
\* are left out here.
DocData(documentation, job) ==
    [url |-> documentation.url, title |-> documentation.title,
     content |-> documentation.content, schedule |-> job.schedule,
     maxPages |-> job.maxPages]

\* { ...docData, id }
WithId(docData, id) ==
    [id |-> id, url |-> docData.url, title |-> docData.title, content |-> docData.content,
     schedule |-> docData.schedule, maxPages |-> docData.maxPages]

\* runJob from the return of generateHashtags to the call of getDocuments or
\* of addDocument.
AfterGenerateHashtags(store, run, outcome) ==
    IF outcome.threw THEN Caught(store, run, outcome.error)
    ELSE LET built == [run EXCEPT !.docData = <<DocData(run.results[1][1], run.job)>>]
         IN IF run.job.isUpdate /\ run.job.updateId # 0
            THEN Turn(store, Awaiting(built, "getDocuments"))
            ELSE Turn(store, Awaiting(built, "addDocument"))

\* const docToUpdate = { ...docData, id: job.updateId,
\*     schedule: existingDoc?.schedule ?? 'none', maxPages: existingDoc?.maxPages ?? 5 }
DocToUpdate(docData, updateId, rows) ==
    LET existing == {r \in rows : r.id = updateId}
        existingDoc == CHOOSE r \in existing : TRUE
    IN [WithId(docData, updateId) EXCEPT
           !.schedule = IF existing = {} THEN "none" ELSE existingDoc.schedule,
           !.maxPages = IF existing = {} THEN 5 ELSE existingDoc.maxPages]

\* runJob from the return of getDocuments to the call of updateDocument.
AfterGetDocuments(store, run, rows) ==
    Turn(store,
         Awaiting([run EXCEPT !.docData = <<DocToUpdate(run.docData[1], run.job.updateId, rows)>>],
                  "updateDocument"))

\* runJob from the return of updateDocument or addDocument to its end.
AfterStored(store, run, outcome) ==
    IF outcome.threw THEN Caught(store, run, outcome.error)
    ELSE Turn(StoreUpdateJob(store, run.job.id, Complete(run.job, outcome.value)),
              [run EXCEPT !.pc = "done"])

\* The statement of updateDocument(doc) throws: a row would share its url.
UpdateThrows(rows, doc) ==
    LET hit == {r \in rows : r.id = doc.id}
        after == (rows \ hit) \cup {UpdatedRow(r, doc) : r \in hit}
    IN \E r \in after : ConstraintFails(after, r)

\* The exception of a statement that breaks a UNIQUE constraint.
UniqueFailed == ThrownError("UNIQUE constraint failed: documents.url")

\* ---------------------------------------------------------------- inputs
Origin == "http://x.dev"
OtherOrigin == "http://y.dev"

\* The baseUrl strings tried: plain, with a query, with a fragment, with an
\* empty path (which the parser rewrites to "/"), and the root.
BaseUrls ==
    {Url(Origin, "/a", "", ""), Url(Origin, "/a", "?q=1", ""), Url(Origin, "/a", "", "#top"),
     Url(Origin, "", "", ""), Url(Origin, "/", "", "")}

\* The href attributes tried.
Hrefs ==
    {HrefAttr("none", "", "", "", ""), HrefAttr("empty", "", "", "", ""),
     HrefAttr("invalid", "", "", "", ""),
     HrefAttr("path", "", "/a", "", ""), HrefAttr("path", "", "/b", "", ""),
     HrefAttr("path", "", "/c", "?q=1", "#top"), HrefAttr("path", "", "/", "", ""),
     HrefAttr("frag", "", "", "", "#top"), HrefAttr("query", "", "", "?q=2", ""),
     HrefAttr("abs", OtherOrigin, "/b", "", ""),
     HrefAttr("path", "", "/f.pdf", "", ""), HrefAttr("path", "", "/f.PDF", "?v=1", ""),
     HrefAttr("path", "", "/api.json", "", "")}

HrefB == HrefAttr("path", "", "/b", "", "")
HrefC == HrefAttr("path", "", "/c", "", "")

\* Anchors that reach the candidate filter through rel="next".
FilterPool ==
    {Anchor(h, "absent", "next", "", "", "Intro", FALSE) : h \in Hrefs}
    \cup {Anchor(HrefB, l, "next", "", "", "Intro", FALSE) : l \in {"", "en"}}

\* Anchors that carry the other signals, and plain anchors of a navigation
\* container.
TierPool ==
    {Anchor(HrefB, "absent", "", "md-footer__link--next", "", "Intro", FALSE),
     Anchor(HrefB, "absent", "", "btn-next", "", "Intro", FALSE),
     Anchor(HrefB, "absent", "", "", "Next page", "Intro", FALSE),
     Anchor(HrefB, "absent", "", "", "", "Next", FALSE),
     Anchor(HrefB, "absent", "", "", "", " next ", FALSE),
     Anchor(HrefB, "absent", "", "", "", "Next page", FALSE),
     Anchor(HrefC, "absent", "", "", "", "Next", TRUE)}
    \cup {Anchor(HrefAttr("path", "", p, "", ""), "absent", "", "", "", "Intro", TRUE) :
            p \in {"/a", "/c", "/", "/f.pdf"}}

AnchorPool == FilterPool \cup TierPool

\* ---------------------------------------------------------------- idle parts
CrawlIdle ==
    /\ startUrl = NoLink /\ maxPages = 0 /\ urlQueue = <<>> /\ visitedUrls = {}
    /\ attemptedUrls = {} /\ results = <<>> /\ failures = <<>> /\ coverImage = ""
    /\ pc = "idle" /\ output = <<>> /\ fetched = <<>> /\ detectorLog = <<>>
    /\ chainLen = 0 /\ existingTitle = Undefined /\ pageImages = <<>>

FindIdle ==
    /\ baseUrl = NoLink /\ htmlContent = <<>> /\ successorLinks = <<>> /\ fpc = "idle"

FetchIdle ==
    /\ fetchResponse = Response("throw", "", <<>>, "", "", "", NoImg)
    /\ fetchResult = Failure("") /\ rpc = "idle"

MarkdownIdle == md = <<>> /\ processed = <<>> /\ mpc = "idle"

ParseIdle == parsedSections = <<>> /\ ppc = "idle"

StoreIdle == documents = {} /\ sequence = 0

ApiIdle ==
    /\ document = NoDocument
    /\ request = Request(QueryParam("absent", 0), QueryParam("absent", 0),
                         RangesParam("absent", <<>>))
    /\ response = NotFound
    /\ served = <<>>

JobsIdle == jobs = <<>> /\ runs = <<>> /\ notified = <<>>

AppIdle == ParseIdle /\ StoreIdle /\ ApiIdle /\ JobsIdle

\* A plain link of a navigation container.
NavLink(path) == Anchor(HrefAttr("path", "", path, "", ""), "absent", "", "", "", "Intro", TRUE)

\* The navigation menus tried, which come before the other anchors of the
\* page: none; the current page and the next; an asset between the two; the
\* root and a page; the current page last.
NavMenus ==
    {<<>>,
     <<NavLink("/a"), NavLink("/c")>>,
     <<NavLink("/a"), NavLink("/f.pdf"), NavLink("/c")>>,
     <<NavLink("/"), NavLink("/a")>>,
     <<NavLink("/c"), NavLink("/a")>>}

\* ---------------------------------------------------------------- findSuccessorPages alone
FindInit ==
    /\ CrawlIdle /\ FetchIdle /\ MarkdownIdle /\ AppIdle
    /\ baseUrl \in BaseUrls
    /\ htmlContent \in {menu \o body : menu \in NavMenus,
                                       body \in SeqsUpTo(AnchorPool, MaxAnchors)}
    /\ successorLinks = <<>>
    /\ fpc = "call"

\* One call of the tool.
FindCall ==
    /\ fpc = "call"
    /\ successorLinks' = FindSuccessorPages(baseUrl, htmlContent)
    /\ fpc' = "return"
    /\ UNCHANGED <<baseUrl, htmlContent>>
    /\ UNCHANGED <<crawlVars, fetchVars, markdownVars, appVars>>

FindNext == FindCall

FindSpec == FindInit /\ [][FindNext]_vars

\* ---------------------------------------------------------------- fetchAndProcessUrl alone
\* The html left in the content container: none, white space only, a
\* paragraph.
ContentHtmls == {"", " ", "<p>Hello</p>"}

\* Every outcome of the first image.
ImageOutcomes ==
    {NoImg, Img("nosrc", "", ""), Img("badsrc", "Invalid URL", ""),
     Img("throw", "fetch failed", ""), Img("http", "HTTP 404", ""),
     Img("ok", "", "data:image/png;base64,AAAA")}

\* Every answer a fetch can get, with pages of up to MaxAnchors anchors.
FetchResponses ==
    {Response("throw", "fetch failed", <<>>, "", "", "", NoImg),
     Response("http", "HTTP 404", <<>>, "", "", "", NoImg)}
    \cup {Response("page", "", h, c, t, h1, img) :
            h \in SeqsUpTo({NavLink("/a"), NavLink("/c")}, MaxAnchors),
            c \in ContentHtmls, t \in {"", "Guide"}, h1 \in {"", "Intro"},
            img \in ImageOutcomes}

FetchInit ==
    /\ CrawlIdle /\ FindIdle /\ MarkdownIdle /\ AppIdle
    /\ fetchResponse \in FetchResponses
    /\ fetchResult = Failure("")
    /\ rpc = "call"

\* One call of fetchAndProcessUrl.
FetchCall ==
    /\ rpc = "call"
    /\ fetchResult' = FetchAndProcessUrl(fetchResponse)
    /\ rpc' = "return"
    /\ UNCHANGED <<fetchResponse, crawlVars, findVars, markdownVars, appVars>>

FetchNext == FetchCall

FetchSpec == FetchInit /\ [][FetchNext]_vars

\* ---------------------------------------------------------------- claims on fetchAndProcessUrl
\* C15 as stated: every success carries non-empty content markup.
C15_AsStated ==
    (rpc = "return" /\ fetchResult.status = "success") => fetchResult.content # ""

\* C15: a page with no html left in the selected region after cleaning is a
\* failure, not an exception and not a success, so every success had html
\* left; the markup of a success is empty when that html converts to nothing.
C15_NoHtmlIsFailure ==
    rpc = "return" =>
        /\ (fetchResponse.kind = "page" /\ fetchResponse.contentHtml = "") =>
                fetchResult = Failure("Main content not found after cleaning")
        /\ fetchResult.status = "success" =>
                /\ fetchResponse.kind = "page" /\ fetchResponse.contentHtml # ""
                /\ fetchResult.content = Markdown(fetchResponse.contentHtml)

\* A page with a title and an image and no html left was returned as a failure.
C15_Witness ==
    /\ rpc = "return"
    /\ fetchResponse.kind = "page" /\ fetchResponse.contentHtml = ""
    /\ fetchResponse.title = "Guide" /\ fetchResponse.image.kind = "ok"
    /\ fetchResult.status = "failure"

\* The same answer with a page that has no <img>.
WithoutImage(resp) == [resp EXCEPT !.image = NoImg]

\* C16: when the image request throws, is not ok, or the src cannot be
\* resolved, the result has the status, reason, title, content and html of
\* the same page without an image, and no image.
C16_ImageFailureIgnored ==
    (rpc = "return" /\ fetchResponse.image.kind \in {"badsrc", "throw", "http"}) =>
        /\ fetchResult.image = ""
        /\ fetchResult = FetchAndProcessUrl(WithoutImage(fetchResponse))

\* A page with content whose image request threw was returned as a success.
C16_Witness ==
    /\ rpc = "return"
    /\ fetchResponse.image.kind = "throw"
    /\ fetchResponse.contentHtml = "<p>Hello</p>"
    /\ fetchResult.status = "success" /\ fetchResult.content = "Hello"
    /\ fetchResult.image = ""

\* ---------------------------------------------------------------- claims on findSuccessorPages

\* The anchors of the page whose href resolves, normalized, to the link.
AnchorsOf(link) ==
    {i \in 1..Len(htmlContent) :
        /\ ~HrefFalsy(htmlContent[i].href)
        /\ ~HrefThrows(htmlContent[i].href)
        /\ StripHashAndSearch(ResolveHref(htmlContent[i].href, baseUrl)) = link}

\* C9 (as stated): every URL returned by findSuccessorPages has the origin of
\* baseUrl, a path that ends in none of the asset extensions, and comes from
\* an anchor that carries no hreflang attribute.
C9_AsStated ==
    fpc = "return" =>
        \A link \in Range(successorLinks) :
            /\ link.origin = ParseUrl(baseUrl).origin
            /\ PathExtension(link.path) \notin AssetExtensions
            /\ \E i \in AnchorsOf(link) : htmlContent[i].hreflang = "absent"

\* C9 (amended): every URL returned by findSuccessorPages has the origin of
\* baseUrl, a path that ends in none of the asset extensions, and comes from
\* an anchor whose hreflang attribute is missing or empty.
C9_CandidateFilter ==
    fpc = "return" =>
        \A link \in Range(successorLinks) :
            /\ link.origin = ParseUrl(baseUrl).origin
            /\ PathExtension(link.path) \notin AssetExtensions
            /\ \E i \in AnchorsOf(link) : htmlContent[i].hreflang \in {"absent", ""}

\* A call that returned a link from a page that also holds an anchor with a
\* language, and one that holds an anchor to another origin.
C9_Witness ==
    /\ fpc = "return"
    /\ Len(successorLinks) = 1
    /\ \E i \in 1..Len(htmlContent) :
          \/ htmlContent[i].hreflang = "en"
          \/ htmlContent[i].href.origin = OtherOrigin

\* C10: findSuccessorPages never returns a self-link: no returned URL equals
\* baseUrl once fragment and query are dropped from both.
C10_NoSelfLink ==
    fpc = "return" =>
        \A link \in Range(successorLinks) :
            StripHashAndSearch(link) # StripHashAndSearch(ParseUrl(baseUrl))

\* The links the anchors with a high-confidence signal give.
Tier1Links ==
    {ProcessCandidate(htmlContent[i], baseUrl) :
        i \in {j \in 1..Len(htmlContent) :
                  \E k \in 1..Len(HighConfidenceSelectors) :
                      MatchesSelector(HighConfidenceSelectors[k], htmlContent[j])}}
    \ {NoLink}

\* The links the anchors with the exact text "next" give.
Tier2Links ==
    {ProcessCandidate(htmlContent[i], baseUrl) :
        i \in {j \in 1..Len(htmlContent) : ExactTextMatch(htmlContent[j])}}
    \ {NoLink}

\* The position of a link in the returned array.
PositionOf(link) == CHOOSE i \in 1..Len(successorLinks) : successorLinks[i] = link

\* C11 (as stated): the result holds only candidates of the first tier that
\* yields one: when a high-confidence selector yields a candidate, the
\* result is the set of those candidates and an anchor that matches only by
\* its exact text adds nothing.
C11_AsStated ==
    (fpc = "return" /\ Tier1Links # {}) => Range(successorLinks) = Tier1Links

\* C11 (amended): the selectors and the exact text are one policy: when
\* either yields a candidate the result is the candidates of both, those of
\* the selectors first, and only the navigation scan is left out.
C11_PrimaryPolicy ==
    (fpc = "return" /\ Tier1Links \cup Tier2Links # {}) =>
        /\ Range(successorLinks) = Tier1Links \cup Tier2Links
        /\ Len(successorLinks) = Cardinality(Tier1Links \cup Tier2Links)
        /\ \A a \in Tier1Links, b \in Tier2Links \ Tier1Links :
              PositionOf(a) < PositionOf(b)

\* A call whose result holds a selector's candidate and, after it, another
\* URL that only an exact-text anchor gives.
C11_Witness ==
    /\ fpc = "return"
    /\ Len(successorLinks) = 2
    /\ successorLinks[1] \in Tier1Links
    /\ successorLinks[2] \in Tier2Links \ Tier1Links

\* What the navigation scan gives on the page, consulted or not.
NavScanLinks == NavScan(NavAnchors(htmlContent), baseUrl, 1, FALSE)

\* C12: when no anchor has a high-confidence signal and an anchor with the
\* exact text "next" passes the candidate filter, the result is the URLs of
\* such anchors alone (one URL when there is one such anchor), whatever the
\* navigation containers hold.
C12_Tier3OnlyAsFallback ==
    (fpc = "return" /\ Tier1Links = {} /\ Tier2Links # {}) =>
        /\ Range(successorLinks) = Tier2Links
        /\ Len(successorLinks) = Cardinality(Tier2Links)

\* A call on a page whose exact-text anchor gave the result while the
\* navigation menu, had it been scanned, gave another URL.
C12_Witness ==
    /\ fpc = "return"
    /\ Tier1Links = {}
    /\ Len(successorLinks) = 1
    /\ successorLinks[1] \in Tier2Links
    /\ Len(NavScanLinks) = 1
    /\ NavScanLinks[1] # successorLinks[1]

\* The candidate filter as the claims state it: the href resolves, the URL
\* without fragment and query is not that of baseUrl, has the origin of
\* baseUrl and no asset extension, and the anchor carries no hreflang.
PassesStatedFilter(el, base) ==
    /\ ~HrefFalsy(el.href)
    /\ ~HrefThrows(el.href)
    /\ el.hreflang = "absent"
    /\ LET fullUrl == ResolveHref(el.href, base) IN
       /\ StripHashAndSearch(fullUrl) # StripHashAndSearch(ParseUrl(base))
       /\ fullUrl.origin = ParseUrl(base).origin
       /\ ~IsAsset(fullUrl.path)

\* The least number of a non-empty set of numbers.
Least(S) == CHOOSE n \in S : \A k \in S : n <= k

\* C24: when the selectors and the exact text give no candidate, the result
\* is the URL of the first anchor of the navigation containers that comes
\* after the first anchor whose resolved path is the path of baseUrl and
\* that passes the candidate filter; it is empty when no navigation anchor
\* resolves to the path of baseUrl or none after it passes the filter.
C24_NextInNavOrder ==
    (fpc = "return" /\ Tier1Links \cup Tier2Links = {}) =>
        LET nav == NavAnchors(htmlContent)
            current == {i \in 1..Len(nav) : IsCurrentPage(nav[i], baseUrl)}
            after == {i \in 1..Len(nav) :
                         /\ current # {}
                         /\ i > Least(current)
                         /\ PassesStatedFilter(nav[i], baseUrl)}
        IN successorLinks =
               IF after = {} THEN <<>>
               ELSE <<StripHashAndSearch(ResolveHref(nav[Least(after)].href, baseUrl))>>

\* ---------------------------------------------------------------- the sites crawled
\* The startUrl strings tried: a plain URL and one with a query string.
StartUrls == {Url(Origin, "/a", "", ""), Url(Origin, "/a", "?q=1", "")}

\* The anchors of the pages of the crawl: rel="next" links to three pages.
CrawlAnchorPool ==
    {Anchor(HrefAttr("path", "", p, "", ""), "absent", "next", "", "", "Intro", FALSE) :
        p \in {"/a", "/b", "/c"}}

\* What the first image of a page of the crawl gives: no image and two
\* different images.
Images ==
    {NoImg,
     Img("ok", "", "data:image/png;base64,AAAA"),
     Img("ok", "", "data:image/png;base64,BBBB")}

\* Every answer a fetch of the crawl can get.
CrawlResponses ==
    {Response("throw", "fetch failed", <<>>, "", "", "", NoImg),
     Response("http", "HTTP 404", <<>>, "", "", "", NoImg)}
    \cup {Response("page", "", h, c, "Guide", "", img) :
            h \in SeqsUpTo(CrawlAnchorPool, MaxAnchors), c \in ContentHtmls, img \in Images}

\* The pages of a chain, in order.
ChainPaths == <<"/a", "/b", "/c", "/d", "/e">>

ChainUrl(i) == Url(Origin, ChainPaths[i], "", "")

ChainIndex(url) == CHOOSE i \in 1..Len(ChainPaths) : ChainUrl(i) = url

\* The anchors of the pages of a chain: rel="next" links, an exact-text link
\* and two plain links of a navigation container.
ChainAnchorPool ==
    {Anchor(HrefAttr("path", "", ChainPaths[i], "", ""), "absent", "next", "", "", "Intro", FALSE) :
        i \in 1..Len(ChainPaths)}
    \cup {Anchor(HrefB, "absent", "", "", "", "Next", FALSE)}
    \cup {Anchor(HrefAttr("path", "", p, "", ""), "absent", "", "", "", "Intro", TRUE) :
            p \in {"/a", "/b"}}

\* The pages, as anchor lists, on which findSuccessorPages returns `links`
\* for the i-th URL of the chain.
ChainHtmls ==
    [i \in 1..Len(ChainPaths) |->
        [last \in BOOLEAN |->
            {h \in SeqsUpTo(ChainAnchorPool, MaxAnchors) :
                FindSuccessorPages(ChainUrl(i), h) =
                    IF last \/ i = Len(ChainPaths) THEN <<>> ELSE <<ChainUrl(i + 1)>>}]]

\* Every fetch of a chain succeeds, and the only successor of a page is the
\* following page; the last page has none.
ChainResponses(url, n) ==
    {Response("page", "", h, c, "Guide", "", pageImages[ChainIndex(url)]) :
        h \in ChainHtmls[ChainIndex(url)][ChainIndex(url) >= n],
        c \in {" ", "<p>Hello</p>"}}

\* The summaries the description prompt answers with: none, white space, a
\* sentence, and one word more than the description keeps.
FiveWords == <<"w", " ", "w", " ", "w", " ", "w", " ", "w", " ">>

Summaries ==
    {<<>>, <<" ">>, <<"A", " ", "t", "o", "o", "l", ".">>,
     FiveWords \o FiveWords \o FiveWords \o FiveWords \o FiveWords \o FiveWords \o <<"w">>}

SummarizerOutcomes ==
    {Summarizer(k, <<>>) : k \in {"initThrows", "rejects", "timeout", "noOutput"}}
    \cup {Summarizer("answers", s) : s \in Summaries}

ResponsesFor(url) ==
    IF chainLen = 0 THEN CrawlResponses ELSE ChainResponses(url, chainLen)

\* ---------------------------------------------------------------- scrapeUrlFlow
\* The state at the first test of the loop condition.
CrawlStart ==
    /\ urlQueue = <<startUrl>>
    /\ visitedUrls = {} /\ attemptedUrls = {}
    /\ results = <<>> /\ failures = <<>> /\ coverImage = ""
    /\ pc = "loop" /\ output = <<>> /\ fetched = <<>> /\ detectorLog = <<>>

Init ==
    /\ FindIdle /\ FetchIdle /\ MarkdownIdle /\ AppIdle
    /\ startUrl \in StartUrls
    /\ maxPages \in 1..MaxPagesTried
    /\ chainLen = 0
    /\ existingTitle = Undefined
    /\ pageImages = <<>>
    /\ CrawlStart

ChainInit ==
    /\ FindIdle /\ FetchIdle /\ MarkdownIdle /\ AppIdle
    /\ chainLen \in 1..MaxChain
    /\ startUrl = ChainUrl(1)
    /\ maxPages \in 1..MaxPagesOnChain
    /\ existingTitle = Undefined
    /\ pageImages = [i \in 1..chainLen |-> NoImg]
    /\ CrawlStart

\* What the first image of a page of a chain gives: no image, an image
\* response that is not ok, and two different images.
ChainImages ==
    {NoImg, Img("http", "HTTP 404", ""),
     Img("ok", "", "data:image/png;base64,AAAA"),
     Img("ok", "", "data:image/png;base64,BBBB")}

\* The longest chain of pages with images tried.
MaxChainWithImages == 2

\* A crawl, to its end, of a chain whose pages have images.
CoverInit ==
    /\ FindIdle /\ FetchIdle /\ MarkdownIdle /\ AppIdle
    /\ chainLen \in 1..MaxChainWithImages
    /\ startUrl = ChainUrl(1)
    /\ maxPages = MaxPagesOnChain
    /\ existingTitle = Undefined
    /\ pageImages \in [1..chainLen -> ChainImages]
    /\ CrawlStart

\* One iteration of the while loop.
Iterate ==
    /\ pc = "loop"
    /\ LoopCondition(urlQueue, visitedUrls, maxPages)
    /\ LET currentUrl == Head(urlQueue)
           rest == Tail(urlQueue)
       IN IF SkipUrl(currentUrl, attemptedUrls)
          THEN /\ urlQueue' = rest
               /\ UNCHANGED <<visitedUrls, attemptedUrls, results, failures, coverImage,
                              pc, fetched, detectorLog>>
          ELSE \E resp \in ResponsesFor(currentUrl) :
               LET result == FetchAndProcessUrl(resp)
                   attempted1 == MarkAttempted(attemptedUrls, currentUrl)
                   visited1 == MarkVisited(visitedUrls, currentUrl, result)
                   detect == result.status = "success" /\ BelowCap(visited1, maxPages)
                   links == IF detect THEN FindSuccessorPages(currentUrl, result.html)
                            ELSE <<>>
               IN /\ attemptedUrls' = attempted1
                  /\ fetched' = Append(fetched, [url |-> currentUrl, status |-> result.status,
                                                 reason |-> result.reason,
                                                 content |-> result.content])
                  /\ visitedUrls' = visited1
                  /\ detectorLog' = IF detect THEN Append(detectorLog, currentUrl)
                                    ELSE detectorLog
                  /\ urlQueue' = PushLinks(rest, attempted1, links, 1)
                  /\ CASE result.status = "success" ->
                            /\ coverImage' = NextCoverImage(coverImage, result.image)
                            /\ results' = PushResult(results, currentUrl, result)
                            /\ UNCHANGED <<failures, pc>>
                       [] result.status = "failure" ->
                            /\ failures' = PushFailure(failures, currentUrl, result)
                            /\ UNCHANGED <<coverImage, results, pc>>
                       [] OTHER ->
                            /\ pc' = "threw"
                            /\ UNCHANGED <<coverImage, results, failures>>
    /\ UNCHANGED <<startUrl, maxPages, output, chainLen, existingTitle,
               pageImages>>
    /\ UNCHANGED <<findVars, fetchVars, markdownVars, appVars>>

\* The loop condition is false: the loop is left.
ExitLoop ==
    /\ pc = "loop"
    /\ ~LoopCondition(urlQueue, visitedUrls, maxPages)
    /\ pc' = "summary"
    /\ UNCHANGED <<startUrl, maxPages, urlQueue, visitedUrls, attemptedUrls, results,
                   failures, coverImage, output, fetched, detectorLog, chainLen, existingTitle,
               pageImages>>
    /\ UNCHANGED <<findVars, fetchVars, markdownVars, appVars>>

\* The summary is logged, the document is built and the flow returns.
Return ==
    /\ pc = "summary"
    /\ \E description \in
            IF Len(results) = 0 THEN {NoDescription}
            ELSE {AiDescription(results, startUrl, existingTitle, outcome) :
                     outcome \in SummarizerOutcomes} :
        IF description = DescriptionThrew
        THEN pc' = "threw" /\ UNCHANGED output
        ELSE /\ output' = FlowOutput(results, startUrl, coverImage, existingTitle,
                                     description)
             /\ pc' = "returned"
    /\ UNCHANGED <<startUrl, maxPages, urlQueue, visitedUrls, attemptedUrls, results,
                   failures, coverImage, fetched, detectorLog, chainLen, existingTitle,
               pageImages>>
    /\ UNCHANGED <<findVars, fetchVars, markdownVars, appVars>>

Next == Iterate \/ ExitLoop \/ Return

Spec == Init /\ [][Next]_vars

\* A step of the while loop.
LoopStep == Iterate \/ ExitLoop

\* The loop is sequential and every fetch returns: a step of the loop that
\* can be taken is taken.
FairSpec == Init /\ [][Next]_vars /\ WF_vars(LoopStep)

FairChainSpec == ChainInit /\ [][Next]_vars /\ WF_vars(LoopStep)

CoverSpec == CoverInit /\ [][Next]_vars

\* ---------------------------------------------------------------- claims on the crawl loop
Last(s) == s[Len(s)]

\* The entries of the fetch history that are successes with content.
HasContent(e) == e.status = "success" /\ e.content # ""

IsSuccess(e) == e.status = "success"

Urls(s) == [i \in 1..Len(s) |-> s[i].url]

\* The step from this state is an iteration that fetches a URL.
FetchStep == pc = "loop" /\ Len(fetched') = Len(fetched) + 1

\* C1: in every state of the crawl loop the number of visited URLs is at
\* most maxPages and every visited URL is in the attempted set.
C1_VisitedBounded ==
    /\ Cardinality(visitedUrls) <= maxPages
    /\ visitedUrls \subseteq attemptedUrls

\* The cap of three pages is reached after a failure.
C1_Witness ==
    /\ Cardinality(visitedUrls) = maxPages
    /\ maxPages = 3
    /\ failures # <<>>

\* C2: no URL is fetched twice: the fetches are as many as the attempted
\* URLs, each attempted URL was fetched once, and every iteration that
\* dequeues a URL adds exactly that URL, a new one, to attempted and fetches
\* it once.
C2_FetchedOnce ==
    /\ [](/\ Len(fetched) = Cardinality(attemptedUrls)
          /\ Range(Urls(fetched)) = attemptedUrls)
    /\ [][(pc = "loop" /\ LoopCondition(urlQueue, visitedUrls, maxPages)) =>
            /\ Head(urlQueue) \notin attemptedUrls
            /\ attemptedUrls' = attemptedUrls \cup {Head(urlQueue)}
            /\ Len(fetched') = Len(fetched) + 1
            /\ Last(fetched').url = Head(urlQueue)]_vars

\* Three URLs were fetched, among them the start URL without its query.
C2_Witness ==
    /\ Len(fetched) = 3
    /\ startUrl.search # ""
    /\ StripHashAndSearch(startUrl) \in attemptedUrls

\* C3: the loop eventually stops, never by an exception, and where it stops
\* the number of visited URLs equals maxPages or the queue is empty.
C3_Terminates ==
    /\ <>(pc = "summary")
    /\ [](pc # "threw")
    /\ [](pc = "summary" => (Cardinality(visitedUrls) = maxPages \/ urlQueue = <<>>))

\* The loop stopped at the cap with a URL still queued.
C3_Witness ==
    /\ pc = "summary"
    /\ urlQueue # <<>>
    /\ Cardinality(visitedUrls) = maxPages
    /\ maxPages >= 2

\* C4: an iteration whose fetch fails adds the URL to attempted and to the
\* failure log with its reason, leaves visited and the page records as they
\* were, calls no successor detection, enqueues nothing and goes on with the
\* rest of the queue.
C4_FailureIsLocal ==
    [][(FetchStep /\ Last(fetched').status # "success") =>
         /\ attemptedUrls' = attemptedUrls \cup {Head(urlQueue)}
         /\ failures' = Append(failures, [url |-> Head(urlQueue),
                                          reason |-> Last(fetched').reason])
         /\ Last(fetched').reason \in
               {"fetch failed", "HTTP 404", "Main content not found after cleaning"}
         /\ visitedUrls' = visitedUrls
         /\ maxPages - Cardinality(visitedUrls') = maxPages - Cardinality(visitedUrls)
         /\ results' = results
         /\ detectorLog' = detectorLog
         /\ urlQueue' = Tail(urlQueue)
         /\ pc' = "loop"]_vars

\* A fetch failed in the middle of a crawl and a later page succeeded.
C4_Witness ==
    /\ Len(fetched) >= 3
    /\ fetched[2].status = "failure"
    /\ fetched[3].status = "success"
    /\ Len(failures) = 1

\* C5 (as stated): the flow never throws; it returns an empty list when the
\* start URL fails and exactly one document, with url = startUrl, when at
\* least one page succeeded.
C5_AsStated ==
    /\ pc # "threw"
    /\ pc = "returned" =>
         /\ fetched[1].status = "failure" => output = <<>>
         /\ visitedUrls # {} => (Len(output) = 1 /\ output[1].url = startUrl)

\* C5 (amended): the flow never throws; it returns an empty list when the
\* start URL fails or no page succeeded with content, and exactly one
\* document, with url = startUrl, when a page succeeded with content.
C5_Output ==
    /\ pc # "threw"
    /\ pc = "returned" =>
         /\ fetched[1].status = "failure" => output = <<>>
         /\ SelectSeq(fetched, HasContent) # <<>> =>
               (Len(output) = 1 /\ output[1].url = startUrl)
         /\ SelectSeq(fetched, HasContent) = <<>> => output = <<>>

\* The flow returned a document although a fetch was rejected by the network.
C5_Witness ==
    /\ pc = "returned"
    /\ Len(output) = 1
    /\ \E i \in 1..Len(failures) : failures[i].reason = "fetch failed"

\* C6 (as stated): the page records are as many as the visited URLs and are
\* in the order in which their URLs were dequeued.
C6_AsStated ==
    /\ Len(results) = Cardinality(visitedUrls)
    /\ Urls(results) = Urls(SelectSeq(fetched, IsSuccess))

\* C6 (amended): there is one page record per visited URL whose content is
\* not empty, in the order in which the URLs were dequeued, and a visited URL
\* with empty content has none.
C6_OneRecordPerPageWithContent ==
    /\ Urls(results) = Urls(SelectSeq(fetched, HasContent))
    /\ \A i \in 1..Len(results) : results[i].content # ""
    /\ Len(results) <= Cardinality(visitedUrls)
    /\ Range(Urls(results)) \subseteq visitedUrls
    /\ Range(Urls(SelectSeq(fetched, IsSuccess))) = visitedUrls

\* Two page records, a failure, and a visited page without a record.
C6_Witness ==
    /\ Len(results) = 2
    /\ failures # <<>>
    /\ Cardinality(visitedUrls) = 3

\* C7 (as stated): with maxPages = 1 a start URL that succeeds yields
\* exactly one page record, no successor detection and nothing enqueued.
C7_AsStated ==
    (maxPages = 1 /\ visitedUrls # {}) =>
        (Len(results) = 1 /\ detectorLog = <<>> /\ urlQueue = <<>>)

\* C7 (amended): a success that brings the number of visited URLs to
\* maxPages calls no successor detection and leaves the rest of the queue
\* unchanged; with maxPages = 1 a start URL that succeeds yields no successor
\* detection, nothing enqueued, and one page record exactly when its content
\* is not empty.
C7_CapBeforeDiscovery ==
    /\ [][(FetchStep /\ Last(fetched').status = "success"
                     /\ Cardinality(visitedUrls') = maxPages) =>
            (detectorLog' = detectorLog /\ urlQueue' = Tail(urlQueue))]_vars
    /\ []((maxPages = 1 /\ visitedUrls # {}) =>
            /\ detectorLog = <<>> /\ urlQueue = <<>> /\ Len(fetched) = 1
            /\ Len(results) = (IF fetched[1].content # "" THEN 1 ELSE 0))

\* The cap of two pages was reached: the first page's successors were looked
\* for, the second page's were not.
C7_Witness ==
    /\ maxPages = 2
    /\ Cardinality(visitedUrls) = 2
    /\ Len(detectorLog) = 1
    /\ Len(results) = 2

\* C23: the queue holds no URL twice and no attempted URL, so the URL taken
\* from the queue is never skipped.
C23_QueueFresh ==
    /\ \A i, j \in 1..Len(urlQueue) : urlQueue[i] = urlQueue[j] => i = j
    /\ Range(urlQueue) \cap attemptedUrls = {}
    /\ (pc = "loop" /\ urlQueue # <<>>) => ~SkipUrl(Head(urlQueue), attemptedUrls)

\* Two pages were fetched and searched for successors, and the queue holds
\* the one URL of the site left.
C23_Witness ==
    /\ pc = "loop"
    /\ Len(detectorLog) = 2
    /\ attemptedUrls = {Url(Origin, "/a", "", ""), Url(Origin, "/b", "", "")}
    /\ urlQueue = <<Url(Origin, "/c", "", "")>>

\* ---------------------------------------------------------------- claims on a chain
ChainPrefix(k) == [i \in 1..k |-> ChainUrl(i)]

\* C8 (as stated): on a chain of n pages a crawl with maxPages = m in which
\* every fetch succeeds stops with exactly min(n, m) page records, in chain
\* order.
C8_AsStated ==
    pc = "summary" => Urls(results) = ChainPrefix(Min(chainLen, maxPages))

\* C8 (amended): on a chain of n pages a crawl with maxPages = m in which
\* every fetch succeeds stops after fetching the first min(n, m) pages, in
\* chain order, each once, with one page record for each of them that has
\* content: min(n, m) records when every page has content.
C8_ChainCrawl ==
    /\ <>(pc = "summary")
    /\ [](pc = "summary" =>
            /\ Urls(fetched) = ChainPrefix(Min(chainLen, maxPages))
            /\ \A i \in 1..Len(fetched) : fetched[i].status = "success"
            /\ Urls(results) = Urls(SelectSeq(fetched, HasContent))
            /\ (\A i \in 1..Len(fetched) : fetched[i].content # "") =>
                  Urls(results) = ChainPrefix(Min(chainLen, maxPages)))

\* A chain of 3 pages crawled with maxPages = 5 stopped with 3 page records.
C8_Witness ==
    /\ chainLen = 3
    /\ maxPages = 5
    /\ pc = "summary"
    /\ Len(results) = 3
    /\ urlQueue = <<>>

\* ---------------------------------------------------------------- the document of a finished crawl
\* The longest list of page records tried.
MaxPageRecords == 3

\* The titles of the pages: a word, two words, white space only.
PageTitles == {"Guide", "A B", " "}

\* The contents of the pages: a word; paragraphs with a rule between them.
PageContents == {"Hello", "a\n\n---\n\nb. c"}

\* The startUrl strings whose title is derived.
TitleUrls ==
    {Url("https://www.example.com", "/docs", "", ""),
     Url("https://www.example.com", "/docs/", "", ""),
     Url("https://fastapi.tiangolo.com", "/tutorial/intro", "", ""),
     Url("https://docs.example.com", "/", "", ""),
     Url("http://localhost", "/docs", "", ""),
     Url("http://localhost", "/guide/Index", "", ""),
     Url("http://localhost", "", "", ""),
     Url("http://www.localhost", "/", "", "")}

ExistingTitles == {Undefined, Supplied(""), Supplied("My Docs")}

\* The URL of the i-th page record: startUrl, then pages of the same site.
RecordUrl(start, i) == IF i = 1 THEN start ELSE Url(start.origin, ChainPaths[i], "", "")

\* The state after the loop of a crawl in which every page succeeded with
\* content, or in which the first page failed: startUrl is one of `starts`,
\* existingTitle one of `existings`, and there are at most `most` records.
ReturnInit(starts, existings, most) ==
    /\ FindIdle /\ FetchIdle /\ MarkdownIdle /\ AppIdle
    /\ startUrl \in starts
    /\ existingTitle \in existings
    /\ maxPages = most + 1
    /\ chainLen = 0
    /\ pageImages = <<>>
    /\ \E n \in 0..most :
       \E titles \in [1..n -> PageTitles], contents \in [1..n -> PageContents] :
          /\ results = [i \in 1..n |-> [url |-> RecordUrl(startUrl, i),
                                        title |-> titles[i], content |-> contents[i]]]
          /\ fetched = IF n = 0
                       THEN <<[url |-> startUrl, status |-> "failure",
                               reason |-> "HTTP 404", content |-> ""]>>
                       ELSE [i \in 1..n |-> [url |-> RecordUrl(startUrl, i),
                                             status |-> "success", reason |-> "",
                                             content |-> contents[i]]]
    /\ visitedUrls = Range(Urls(results))
    /\ attemptedUrls = Range(Urls(fetched))
    /\ detectorLog = Urls(results)
    /\ failures = IF results = <<>> THEN <<[url |-> startUrl, reason |-> "HTTP 404"]>>
                  ELSE <<>>
    /\ coverImage = IF results = <<>> THEN "" ELSE "data:image/png;base64,AAAA"
    /\ urlQueue = <<>>
    /\ output = <<>>
    /\ pc = "summary"

\* The documents of crawls of one site, of every length.
IndexInit ==
    ReturnInit({Url("https://fastapi.tiangolo.com", "/tutorial/intro", "", "")},
               {Undefined}, MaxPageRecords)

\* The documents of crawls of one page, of every site and existing title.
TitleInit == ReturnInit(TitleUrls, ExistingTitles, 1)

ReturnNext == Return

IndexSpec == IndexInit /\ [][ReturnNext]_vars

TitleSpec == TitleInit /\ [][ReturnNext]_vars

\* ---------------------------------------------------------------- claims on the document
\* The document returned.
Doc == output[1]

Returned == pc = "returned" /\ Len(output) = 1

RECURSIVE TokensBefore(_)
\* The number of tokens of the sections of the page records before record n.
TokensBefore(n) ==
    IF n <= 1 THEN 0 ELSE TokensBefore(n - 1) + Len(Words(Section(results[n - 1])))

\* C13: index entry n (pageNumber n) has startWord equal to the sum of the
\* token counts of the earlier sections plus one per earlier separator,
\* endWord equal to startWord plus the token count of its own section, and
\* lengthWords equal to endWord minus startWord; there is one entry per record.
C13_IndexSpans ==
    Returned =>
        /\ Len(Doc.indexPage) = Len(results)
        /\ \A n \in 1..Len(results) :
              LET entry == Doc.indexPage[n] IN
              /\ entry.pageNumber = n
              /\ entry.startWord = TokensBefore(n) + (n - 1)
              /\ entry.endWord = entry.startWord + Len(Words(Section(results[n])))
              /\ entry.lengthWords = entry.endWord - entry.startWord

\* Three records, the first of which has a title of two words.
C13_Witness ==
    /\ Returned
    /\ Len(Doc.indexPage) = 3
    /\ results[1].title = "A B"
    /\ Doc.indexPage[3].startWord = TokensBefore(3) + 2

\* C14: the tokens [startWord, endWord) of the joined content are the tokens
\* of the formatted section of page n, for every page n.
C14_RoundTrip ==
    Returned =>
        \A n \in 1..Len(results) :
            Slice(Words(Doc.content), Doc.indexPage[n].startWord, Doc.indexPage[n].endWord)
                = Words(Section(results[n]))

\* Two records or more, the first of which holds a rule of its own.
C14_Witness ==
    /\ Returned
    /\ Len(results) >= 2
    /\ results[1].content = "a\n\n---\n\nb. c"
    /\ Slice(Words(Doc.content), Doc.indexPage[2].startWord, Doc.indexPage[2].endWord)
           = Words(Section(results[2]))

\* The title the rules of the claim give for a startUrl.
DerivedTitle(start) ==
    LET url == ParseUrl(start)
        path == SelectSeq(PathnameSplit(url.path), LAMBDA s : s # "")
        host == SelectSeq(HostnameSplit(url.origin), LAMBDA s : s # "www")
    IN CASE path # <<>> /\ ~IsGenericSegment(Last(path)) -> Last(path)
         [] OTHER ->
            CASE Len(host) >= 2 -> host[Len(host) - 1]
              [] OTHER -> IF path # <<>> THEN path[1] ELSE HostJoin(host)

C20_SummarizerTolerated ==
    [][(pc = "summary" /\ results # <<>>) =>
            /\ pc' = "returned"
            /\ Len(output') = 1
            /\ output'[1].url = startUrl
            /\ output'[1].title = DocumentationTitle(startUrl, existingTitle)
            /\ output'[1].content = AggregatedContent(PageSections(results))
            /\ output'[1].image = coverImage
            /\ output'[1].aiDescription.kind \in {"undefined", "string"}]_vars

\* The document came back with the heuristic description of a prompt that
\* failed or timed out.
C20_Witness ==
    /\ Returned
    /\ ~Truthy(existingTitle)
    /\ Doc.aiDescription =
           Described(HeuristicDescription(Snippet(Doc.content), Len(results), startUrl))

\* ---------------------------------------------------------------- the document parsed back
\* The library page parses the content of a document the flow returned.
Parse ==
    /\ pc = "returned" /\ Len(output) = 1 /\ ppc = "idle"
    /\ parsedSections' = ParseContentToSections(output[1].content)
    /\ ppc' = "return"
    /\ UNCHANGED <<crawlVars, findVars, fetchVars, markdownVars, storeVars, apiVars, jobVars>>

ParseNext == Return \/ Parse

ParseSpec == IndexInit /\ [][ParseNext]_vars

\* C21: parseContentToSections applied to the content the flow returned
\* gives one section per page record, in order, whose title, url and content
\* are the title, the url and the content of that record.
C21_RoundTrip ==
    ppc = "return" =>
        /\ Len(parsedSections) = Len(results)
        /\ \A n \in 1..Len(parsedSections) :
              n <= Len(results) =>
                  /\ parsedSections[n].title = Chars(results[n].title)
                  /\ parsedSections[n].url = UrlText(results[n].url)
                  /\ parsedSections[n].content = Chars(results[n].content)

\* ---------------------------------------------------------------- claims on the cover image
\* The image of the page at `url` of the chain, "" when it has none.
ImageOf(url) == FirstImageDataUri(pageImages[ChainIndex(url)])

\* The images, in visitation order, of the pages processed successfully.
ImagesFound ==
    LET found == SelectSeq(fetched, IsSuccess)
    IN SelectSeq([i \in 1..Len(found) |-> ImageOf(found[i].url)], LAMBDA img : img # "")

\* C17: the cover image is the image of the first page, in visitation order,
\* that was processed successfully and has an image, and it is absent only
\* if there is no such page; it is the image of the document; once set it is
\* not replaced.
C17_CoverImage ==
    /\ [](coverImage = IF ImagesFound = <<>> THEN "" ELSE ImagesFound[1])
    /\ [](Returned => Doc.image = coverImage)
    /\ [][coverImage # "" => coverImage' = coverImage]_vars

\* Two pages with different images were visited, and the document carries
\* the image of the first.
C17_Witness ==
    /\ Returned
    /\ Len(ImagesFound) = 2
    /\ ImagesFound[1] # ImagesFound[2]
    /\ Doc.image = ImagesFound[1]

\* ---------------------------------------------------------------- postProcessMarkdown alone
\* The longest markdown text tried, in pieces.
MaxMdPieces == 5

\* The pieces a markdown text is made of: a fence, a letter, a space, a line
\* break, a backslash, an underscore and a non-breaking space.
MdPieces == {Fence, <<"x">>, <<" ">>, <<"\n">>, <<"\\">>, <<"_">>, <<Nbsp>>}

MdInit ==
    /\ CrawlIdle /\ FindIdle /\ FetchIdle /\ AppIdle
    /\ md \in {Join(pieces, <<>>) : pieces \in SeqsUpTo(MdPieces, MaxMdPieces)}
    /\ processed = <<>>
    /\ mpc = "call"

\* One call of postProcessMarkdown.
MdCall ==
    /\ mpc = "call"
    /\ processed' = PostProcessMarkdown(md)
    /\ mpc' = "return"
    /\ UNCHANGED <<md, crawlVars, findVars, fetchVars, appVars>>

MdNext == MdCall

MdSpec == MdInit /\ [][MdNext]_vars

\* ---------------------------------------------------------------- claims on postProcessMarkdown
\* The fenced blocks of a text, fences included, in order.
FencedBlocks(text) ==
    LET segments == Segments(text, 1)
    IN [k \in 1..(Len(segments) \div 2) |-> segments[2 * k]]

\* C19 as stated: every fenced block of the input is the same in the output.
C19_AsStated ==
    mpc = "return" => FencedBlocks(processed) = FencedBlocks(md)

\* C19: the fenced blocks of the output are those of the input, in order,
\* each one unchanged but for the backslashes before an underscore, a star
\* or a backtick, which are removed; spaces, line breaks and non-breaking
\* spaces inside a block are kept as they are.
C19_FencedBlocks ==
    mpc = "return" =>
        FencedBlocks(processed) =
            [k \in 1..Len(FencedBlocks(md)) |-> UnescapeInFence(FencedBlocks(md)[k])]

\* A block of three line breaks, which outside a block become two, came out
\* as it went in.
C19_Witness ==
    /\ mpc = "return"
    /\ md = Fence \o <<"\n", "\n", "\n">> \o Fence
    /\ processed = md

\* ---------------------------------------------------------------- the documents table alone
\* The number of rows ever inserted.
MaxDocsAdded == 3

StoreUrls == {Url("https://a.dev", "/docs", "", ""), Url("https://b.dev", "/docs", "", "")}

\* The ids nano() draws from.
UidPool == {"k3x9q2m1a", "p0w8e7r6t", "z1y2x3w4v"}

Schedules == {"none", "daily"}

\* The documents added: a new document has the default number of pages.
AddedDocs ==
    [url : StoreUrls, title : {"Docs"}, content : {Chars("Hello")},
     schedule : Schedules, maxPages : {5}]

\* The documents written over a row; "" is no doc_uid in the object.
UpdatedDocs ==
    [id : 1..(MaxDocsAdded + 1), url : StoreUrls, title : {"Docs", "My Docs"},
     content : {Chars("Hello")}, schedule : Schedules, maxPages : {5}, doc_uid : {""}]

StoreInit ==
    /\ CrawlIdle /\ FindIdle /\ FetchIdle /\ MarkdownIdle /\ ParseIdle /\ ApiIdle /\ JobsIdle
    /\ documents = {}
    /\ sequence = 0

FlowUnchanged == UNCHANGED <<crawlVars, findVars, fetchVars, markdownVars>>

\* addDocument(doc)
AddDocument ==
    /\ sequence < MaxDocsAdded
    /\ \E doc \in AddedDocs, docUid \in GenUniqueShortId(documents, UidPool) :
          LET inserted == Insert(documents, sequence, doc, docUid)
          IN documents' = inserted.rows /\ sequence' = inserted.seq
    /\ FlowUnchanged /\ UNCHANGED <<parseVars, apiVars, jobVars>>

\* updateDocument(doc)
UpdateDocument ==
    /\ \E doc \in UpdatedDocs : documents' = Update(documents, doc)
    /\ UNCHANGED sequence
    /\ FlowUnchanged /\ UNCHANGED <<parseVars, apiVars, jobVars>>

\* updateDocumentSchedule(id, schedule, maxPages?)
UpdateDocumentSchedule ==
    /\ \E id \in 1..(MaxDocsAdded + 1), schedule \in Schedules, pages \in {0, 10} :
          documents' = UpdateSchedule(documents, id, schedule, pages)
    /\ UNCHANGED sequence
    /\ FlowUnchanged /\ UNCHANGED <<parseVars, apiVars, jobVars>>

\* deleteDocument(id)
DeleteDocument ==
    /\ \E id \in 1..(MaxDocsAdded + 1) : documents' = Delete(documents, id)
    /\ UNCHANGED sequence
    /\ FlowUnchanged /\ UNCHANGED <<parseVars, apiVars, jobVars>>

StoreNext == AddDocument \/ UpdateDocument \/ UpdateDocumentSchedule \/ DeleteDocument

StoreSpec == StoreInit /\ [][StoreNext]_vars

\* ---------------------------------------------------------------- claims on the documents table
\* C22: no two rows of the table share a doc_uid, and a step of addDocument,
\* updateDocument, updateDocumentSchedule or deleteDocument leaves the
\* doc_uid of every row it keeps as it was; the id of a row is never given
\* to another row, so the doc_uid a document got when inserted stays.
C22_StableUniqueId ==
    /\ [](\A r1, r2 \in documents : r1.doc_uid = r2.doc_uid => r1 = r2)
    /\ [](\A r \in documents : r.id <= sequence /\ r.doc_uid \in UidPool)
    /\ [][\A r \in documents, after \in documents' :
              r.id = after.id => r.doc_uid = after.doc_uid]_vars

\* Two rows of three inserted, one deleted; the first row was written by
\* updateDocument and by updateDocumentSchedule.
C22_Witness ==
    /\ sequence = 3
    /\ Cardinality(documents) = 2
    /\ \E r \in documents : r.title = "My Docs" /\ r.maxPages = 10 /\ r.id = 1
    /\ \E r \in documents : r.id = 3


\* ---------------------------------------------------------------- the index used with fetch_doc_content
MaxRangeRecords == 2

\* The documents of crawls of one site with at most MaxRangeRecords pages.
RangeInit ==
    ReturnInit({Url("https://fastapi.tiangolo.com", "/tutorial/intro", "", "")},
               {Undefined}, MaxRangeRecords)

\* The row that holds the document: runJob stores documentation.content as
\* the content of the row, and the handler reads it back.
StoredDocument(documentation) == FoundDocument(documentation.content)

\* The request made from an index entry: start = startWord and
\* max_length = endWord - startWord.
IndexRequest(entry) ==
    Request(QueryParam("int", entry.startWord),
            QueryParam("int", entry.endWord - entry.startWord),
            RangesParam("absent", <<>>))

\* A request for the section of one entry of the index of the document.
FetchIndexEntry ==
    /\ pc = "returned"
    /\ Len(output) = 1
    /\ \E n \in 1..Len(output[1].indexPage) :
          /\ document' = StoredDocument(output[1])
          /\ request' = IndexRequest(output[1].indexPage[n])
          /\ response' = Get(document', request')
    /\ UNCHANGED served
    /\ FlowUnchanged
    /\ UNCHANGED <<parseVars, storeVars, jobVars>>

RangeNext == Return \/ FetchIndexEntry

RangeSpec == RangeInit /\ [][RangeNext]_vars

\* ---------------------------------------------------------------- claims on the index used with fetch_doc_content
\* The last request was made from entry n of the index.
EntryRequested(n) ==
    /\ Returned
    /\ document.found
    /\ n \in 1..Len(Doc.indexPage)
    /\ request = IndexRequest(Doc.indexPage[n])

\* The answer is the tokens given, joined by single spaces.
Answers(tokens) ==
    /\ response.status = 200
    /\ response.mode = "single"
    /\ response.content = Join(tokens, <<" ">>)
    /\ response.returned_words = Len(tokens)

\* C25 as stated: for every index entry, the request with start = startWord
\* and max_length = endWord - startWord returns exactly the tokens of the
\* section of that page, and returned_words equal to lengthWords.
C25_AsStated ==
    \A n \in 1..MaxRangeRecords + 1 :
        EntryRequested(n) =>
            /\ Answers(Words(Section(results[n])))
            /\ response.returned_words = Doc.indexPage[n].lengthWords

\* C25: for every index entry whose lengthWords is at most the cap, the
\* request with start = startWord and max_length = endWord - startWord
\* returns exactly the tokens of the section of that page, and returned_words
\* equal to lengthWords; for a longer entry it returns the first tokens of
\* the section, as many as the cap, with has_more true and next_start inside
\* the section.
C25_IndexUsableUpToCap ==
    \A n \in 1..MaxRangeRecords + 1 :
        EntryRequested(n) =>
            LET entry == Doc.indexPage[n]
                tokens == Words(Section(results[n]))
            IN IF entry.lengthWords <= MaxCap
               THEN /\ Answers(tokens)
                    /\ response.returned_words = entry.lengthWords
               ELSE /\ Answers(SubSeq(tokens, 1, MaxCap))
                    /\ response.has_more
                    /\ response.next_start = entry.startWord + MaxCap
                    /\ response.next_start < entry.endWord

\* The second entry of an index is requested, its section is no longer than
\* the cap, and the answer has all its words.
C25_Witness ==
    /\ EntryRequested(2)
    /\ Doc.indexPage[2].startWord > 0
    /\ Doc.indexPage[2].lengthWords <= MaxCap
    /\ response.returned_words = Doc.indexPage[2].lengthWords
    /\ response.returned_words > 0

\* ---------------------------------------------------------------- paging through a document
\* The contents paged through: none, one word, white space only, white
\* space before the first word, white space after the last, and texts of
\* seven and of nine words with runs of white space between them.
PagedContents ==
    {<<>>, <<"a">>, <<" ">>, <<" ", "a", " ", "b">>, <<"a", " ", "b", "\n">>,
     <<"a", " ", " ", "b", "\n", "\n", "c", " ", "d", " ", "e", " ", "f", " ", "g">>,
     <<"#", " ", "a", "\n", "\n", "b", " ", "c", " ", "d", "\n", "e", " ", "f", " ", "g",
       " ", "h", "\t", "i">>}

\* The max_length values a client pages with: up to two above the cap.
PagedMaxLengths == 1..(MaxCap + 2)

\* A client about to ask for the first page of a document, with start = 0
\* and with the max_length it keeps.
PagingInit ==
    /\ CrawlIdle /\ FindIdle /\ FetchIdle /\ MarkdownIdle /\ ParseIdle /\ StoreIdle /\ JobsIdle
    /\ \E content \in PagedContents : document = FoundDocument(content)
    /\ \E maxLength \in PagedMaxLengths :
          request = Request(QueryParam("int", 0), QueryParam("int", maxLength),
                            RangesParam("absent", <<>>))
    /\ response = NotFound
    /\ served = <<>>

\* The client sends its request and the handler answers; when the answer
\* has more, the client's next request has start = next_start.
RequestPage ==
    /\ IF served = <<>> THEN TRUE ELSE served[Len(served)].has_more
    /\ response' = Get(document, request)
    /\ served' = Append(served, response')
    /\ request' = IF response'.has_more
                  THEN [request EXCEPT !.start = QueryParam("int", response'.next_start)]
                  ELSE request
    /\ UNCHANGED document
    /\ FlowUnchanged
    /\ UNCHANGED <<parseVars, storeVars, jobVars>>

PagingNext == RequestPage

\* The client goes on asking while there is more.
PagingSpec == PagingInit /\ [][PagingNext]_vars /\ WF_vars(RequestPage)

\* ---------------------------------------------------------------- claims on paging
\* The last page was served.
PagingDone == served # <<>> /\ ~served[Len(served)].has_more

\* Every answer served so far ends at the least of start + maxLength and
\* total_words, where maxLength is a function of the max_length requested.
EndsAt(maxLength) ==
    \A k \in 1..Len(served) :
        /\ served[k].status = 200
        /\ served[k].mode = "single"
        /\ served[k].start = (IF k = 1 THEN 0 ELSE served[k - 1].next_start)
        /\ served[k].end = Min(served[k].start + maxLength, served[k].total_words)
        /\ served[k].returned_words = served[k].end - served[k].start

\* The slices served are, one after the other, the words of the content
\* from the first one on.
SlicesInOrder ==
    LET words == SplitWhitespace(document.content) IN
    /\ \A k \in 1..Len(served) :
          /\ served[k].total_words = Len(words)
          /\ served[k].content = Join(SubSeq(words, served[k].start + 1, served[k].end), <<" ">>)
    /\ served # <<>> =>
          Join([k \in 1..Len(served) |-> served[k].content], <<" ">>)
              = Join(SubSeq(words, 1, served[Len(served)].end), <<" ">>)

\* C26 as stated, its part on each response: end is the least of
\* start + max_length and total_words, max_length being the one requested.
C26_AsStated == EndsAt(request.max_length.n)

\* C26: paging from start = 0 with a fixed positive max_length ends, and
\* with an answer that has has_more = false; each response has end equal to
\* the least of start + m and total_words, where m is the least of
\* max_length and the cap, and returned_words = end - start; and the slices
\* returned, one after the other, are every word of the content exactly
\* once, in order.
C26_PagingComplete ==
    /\ [](EndsAt(Min(request.max_length.n, MaxCap)))
    /\ [](SlicesInOrder)
    /\ [](PagingDone =>
            served[Len(served)].end = Len(SplitWhitespace(document.content)))
    /\ <>[](PagingDone)

\* A content that starts with white space was paged through in three
\* requests of one word each, the first word being the empty one.
C26_Witness ==
    /\ PagingDone
    /\ Len(served) = 3
    /\ document.content[1] = " "
    /\ served[1].content = <<>>
    /\ served[3].end = 3

\* ---------------------------------------------------------------- requests for ranges
MaxRangeParts == 3

\* The parts of a ranges parameter: a text that is no range; ranges that
\* overlap, that touch, that lie apart; an empty and a reversed range; a
\* range that ends after the last word and one that starts after it.
RangeParts ==
    {RangePart("junk", 0, 0),
     RangePart("range", 0, 2), RangePart("range", 2, 3), RangePart("range", 1, 3),
     RangePart("range", 4, 5), RangePart("range", 5, 9),
     RangePart("range", 3, 3), RangePart("range", 4, 2),
     RangePart("range", 0, 20), RangePart("range", 8, 12)}

\* The contents asked for: of one, three, seven and nine words.
RangedContents == {c \in PagedContents : c # <<>> /\ c[1] # " "}

\* A client about to ask for ranges of a document.
RangesInit ==
    /\ CrawlIdle /\ FindIdle /\ FetchIdle /\ MarkdownIdle /\ ParseIdle /\ StoreIdle /\ JobsIdle
    /\ \E content \in RangedContents : document = FoundDocument(content)
    /\ \E parts \in SeqsUpTo(RangeParts, MaxRangeParts) :
          request = Request(QueryParam("absent", 0), QueryParam("absent", 0),
                            RangesParam("text", parts))
    /\ response = NotFound
    /\ served = <<>>

\* The client sends its request and the handler answers.
RequestRanges ==
    /\ served = <<>>
    /\ response' = Get(document, request)
    /\ served' = <<response'>>
    /\ UNCHANGED <<document, request>>
    /\ FlowUnchanged
    /\ UNCHANGED <<parseVars, storeVars, jobVars>>

RangesNext == RequestRanges

RangesSpec == RangesInit /\ [][RangesNext]_vars

\* ---------------------------------------------------------------- claims on requests for ranges
\* The word positions of a range.
Positions(range) == {p \in 0..50 : range.start <= p /\ p < range.end}

\* The word positions asked for: those of every part that is a range, its
\* end clamped to the number of words.
PositionsAsked ==
    LET totalWords == Len(SplitWhitespace(document.content)) IN
    UNION {Positions(WordRange(request.ranges.parts[k].s,
                               Min(request.ranges.parts[k].e, totalWords))) :
             k \in {j \in 1..Len(request.ranges.parts) :
                      request.ranges.parts[j].kind = "range"}}

\* C27: the answer to a request for ranges is an error when no word
\* position is asked for by a valid range, and when more positions are asked
\* for than the cap; otherwise its merged ranges are sorted by start, two
\* consecutive ones neither overlap nor touch, each is non-empty, and their
\* positions are the positions asked for.
C27_MergedRanges ==
    served # <<>> =>
        IF PositionsAsked = {}
        THEN response = ErrorResponse(400, "No valid ranges")
        ELSE IF Cardinality(PositionsAsked) > MaxCap
        THEN response = ErrorResponse(400, "Requested ranges exceed cap")
        ELSE LET merged == response.merged_ranges IN
             /\ response.status = 200
             /\ response.mode = "multi"
             /\ \A k \in 1..Len(merged) : merged[k].start < merged[k].end
             /\ \A k \in 1..(Len(merged) - 1) : merged[k].end < merged[k + 1].start
             /\ UNION {Positions(merged[k]) : k \in 1..Len(merged)} = PositionsAsked

\* Three ranges out of order, two of which touch, were merged into two.
C27_Witness ==
    /\ served # <<>>
    /\ request.ranges.parts = <<RangePart("range", 2, 3), RangePart("range", 0, 2),
                                RangePart("range", 4, 5)>>
    /\ response.status = 200
    /\ response.merged_ranges = <<WordRange(0, 3), WordRange(4, 5)>>

\* ---------------------------------------------------------------- the jobs of the scraper page
\* The number of jobs started.
MaxJobs == 2

\* The URLs documented.
JobUrls ==
    {Url("https://fastapi.tiangolo.com", "/tutorial/intro", "", ""),
     Url("https://docs.example.com", "/", "", "")}

\* The URL an update is asked for.
UpdateUrl == Url("https://fastapi.tiangolo.com", "/tutorial/intro", "", "")

\* The jobs started with the id given: a new documentation of a URL, and
\* the update of the first document of the library.
NewJobs(id) ==
    {Job(id, url, 5, FALSE, 0, "none", Undefined, p, "Initializing...") :
        url \in JobUrls, p \in CurrentProviders}
    \cup {Job(id, UpdateUrl, 5, TRUE, 1, "none", Supplied("My Docs"), p,
              "Initializing update...") : p \in CurrentProviders}

\* What scrapeUrl gives for a job: an exception, no page, or the document
\* of one page.
ScrapeOutcomes(job) ==
    LET page == <<[url |-> job.url, title |-> "Guide", content |-> "Hello"]>>
        described(res) == AiDescription(res, job.url, job.existingTitle,
                                        Summarizer("noOutput", <<>>))
    IN {Throws(ThrownError("fetch failed"))}
       \cup {Gives(FlowOutput(res, job.url, "", job.existingTitle, described(res))) :
               res \in {<<>>, page}}

\* The ids nano() draws from while jobs run.
JobUidPool == {"k3x9q2m1a", "p0w8e7r6t"}

\* What generateHashtags gives; the hashtags are not in the rows modelled.
HashtagOutcomes == {Throws(ThrownError("No hashtags generated")), Gives(<<>>)}

\* No job was started and the library is empty.
JobInit ==
    /\ CrawlIdle /\ FindIdle /\ FetchIdle /\ MarkdownIdle /\ ParseIdle /\ ApiIdle
    /\ StoreIdle
    /\ jobs = <<>>
    /\ runs = <<>>
    /\ notified = <<>>

\* The turn of run i ended with `turn`.
TurnEnds(i, turn) ==
    /\ jobs' = turn.store.jobs
    /\ notified' = turn.store.notified
    /\ runs' = [runs EXCEPT ![i] = turn.run]

JobFrame == FlowUnchanged /\ UNCHANGED <<parseVars, apiVars>>

\* handleScrapeRequest, and the effect that reads updateUrl: the job is put
\* first in the list, and runJob runs up to the call of scrapeUrl.
StartJob ==
    /\ Len(runs) < MaxJobs
    /\ \E newJob \in NewJobs(Len(runs) + 1) :
          LET created == Store(<<newJob>> \o jobs, Append(notified, <<>>))
              told == Store(created.jobs, Told(created, newJob.id))
              started == StoreUpdateJob(told, newJob.id, Fetching)
          IN /\ jobs' = started.jobs
             /\ notified' = started.notified
             /\ runs' = Append(runs, Run(newJob, "scrapeUrl", <<"scrapeUrl">>, <<>>, <<>>))
    /\ UNCHANGED storeVars
    /\ JobFrame

\* scrapeUrl returns or throws.
ScrapeUrlReturns ==
    /\ \E i \in 1..Len(runs) :
          /\ runs[i].pc = "scrapeUrl"
          /\ \E outcome \in ScrapeOutcomes(runs[i].job) :
                TurnEnds(i, AfterScrapeUrl(Store(jobs, notified), runs[i], outcome))
    /\ UNCHANGED storeVars
    /\ JobFrame

\* generateHashtags returns or throws.
GenerateHashtagsReturns ==
    /\ \E i \in 1..Len(runs) :
          /\ runs[i].pc = "generateHashtags"
          /\ \E outcome \in HashtagOutcomes :
                TurnEnds(i, AfterGenerateHashtags(Store(jobs, notified), runs[i], outcome))
    /\ UNCHANGED storeVars
    /\ JobFrame

\* getDocuments returns the rows.
GetDocumentsReturns ==
    /\ \E i \in 1..Len(runs) :
          /\ runs[i].pc = "getDocuments"
          /\ TurnEnds(i, AfterGetDocuments(Store(jobs, notified), runs[i], documents))
    /\ UNCHANGED storeVars
    /\ JobFrame

\* updateDocument writes the row and returns, or throws.
UpdateDocumentReturns ==
    /\ \E i \in 1..Len(runs) :
          /\ runs[i].pc = "updateDocument"
          /\ LET docToUpdate == runs[i].docData[1] IN
             IF UpdateThrows(documents, docToUpdate)
             THEN /\ TurnEnds(i, AfterStored(Store(jobs, notified), runs[i],
                                             Throws(UniqueFailed)))
                  /\ UNCHANGED documents
             ELSE /\ TurnEnds(i, AfterStored(Store(jobs, notified), runs[i],
                                             Gives(docToUpdate)))
                  /\ documents' = Update(documents, docToUpdate)
    /\ UNCHANGED sequence
    /\ JobFrame

\* addDocument inserts the row and returns its id, or throws.
AddDocumentReturns ==
    /\ \E i \in 1..Len(runs) :
          /\ runs[i].pc = "addDocument"
          /\ \E docUid \in GenUniqueShortId(documents, JobUidPool) :
                LET docData == runs[i].docData[1]
                    inserted == Insert(documents, sequence, docData, docUid)
                IN /\ documents' = inserted.rows
                   /\ sequence' = inserted.seq
                   /\ TurnEnds(i, AfterStored(Store(jobs, notified), runs[i],
                                              IF inserted.ok
                                              THEN Gives(WithId(docData, inserted.seq))
                                              ELSE Throws(UniqueFailed)))
    /\ JobFrame

\* handleClearHistory: clearJobs()
ClearJobs ==
    /\ jobs # <<>>
    /\ jobs' = <<>>
    /\ UNCHANGED <<runs, notified>>
    /\ UNCHANGED storeVars
    /\ JobFrame

JobNext ==
    \/ StartJob
    \/ ScrapeUrlReturns
    \/ GenerateHashtagsReturns
    \/ GetDocumentsReturns
    \/ UpdateDocumentReturns
    \/ AddDocumentReturns
    \/ ClearJobs

JobSpec == JobInit /\ [][JobNext]_vars

\* ---------------------------------------------------------------- claims on the jobs
Terminal(status) == status \in {"complete", "failed"}

\* From what the listeners were told of a job to what they are told next:
\* scraping may stay or go to generating_hashtags, generating_hashtags may
\* stay or go to complete, either may go to failed, and the progress does
\* not go down.
Forward(before, after) ==
    /\ after.progress >= before.progress
    /\ \/ before.status = "scraping"
          /\ after.status \in {"scraping", "generating_hashtags", "failed"}
       \/ before.status = "generating_hashtags"
          /\ after.status \in {"generating_hashtags", "complete", "failed"}

\* The place of the job `id` in the list, or 0.
PlaceOf(jobList, id) ==
    IF \E k \in 1..Len(jobList) : jobList[k].id = id
    THEN CHOOSE k \in 1..Len(jobList) : jobList[k].id = id
    ELSE 0

\* C28: what the listeners are told of a job starts with scraping and goes
\* forward only (scraping, generating_hashtags, complete, or failed from
\* scraping or generating_hashtags) with a progress that never goes down;
\* a job that is complete or failed has progress 100; the job in the list
\* is as the listeners were last told; and no step changes a job of the
\* list that is complete or failed.
C28_ForwardOnly ==
    /\ [](\A i \in 1..Len(notified) :
            /\ Len(notified[i]) >= 1
            /\ notified[i][1].status = "scraping"
            /\ \A k \in 1..(Len(notified[i]) - 1) :
                  Forward(notified[i][k], notified[i][k + 1])
            /\ \A k \in 1..Len(notified[i]) :
                  Terminal(notified[i][k].status) => notified[i][k].progress = 100)
    /\ [](\A k \in 1..Len(jobs) :
            LET told == notified[jobs[k].id]
            IN /\ jobs[k].status = told[Len(told)].status
               /\ jobs[k].progress = told[Len(told)].progress)
    /\ [][\A k \in 1..Len(jobs) :
             Terminal(jobs[k].status) =>
                 \A m \in 1..Len(jobs') : jobs'[m].id = jobs[k].id => jobs'[m] = jobs[k]]_vars

\* Two jobs ran to their ends: one is complete, the other failed when the
\* hashtags were generated.
C28_Witness ==
    /\ Len(jobs) = 2
    /\ jobs[2].status = "complete" /\ jobs[2].progress = 100
    /\ Len(notified[jobs[2].id]) = 5
    /\ jobs[1].status = "failed" /\ jobs[1].progress = 100
    /\ Len(notified[jobs[1].id]) = 5
    /\ notified[jobs[1].id][4].status = "generating_hashtags"

\* C29: a run whose call of scrapeUrl returned an empty list is at its end,
\* has called nothing but scrapeUrl, and its job, when it is in the list,
\* is failed with progress 100 and the error "Could not find any content at
\* the specified URL."; the step in which scrapeUrl returns the empty list
\* leaves the documents as they are.
C29_EmptyResult ==
    /\ [](\A i \in 1..Len(runs) :
            runs[i].results = << <<>> >> =>
               /\ runs[i].pc = "done"
               /\ runs[i].calls = <<"scrapeUrl">>
               /\ LET k == PlaceOf(jobs, runs[i].job.id)
                  IN k # 0 =>
                       /\ jobs[k].status = "failed"
                       /\ jobs[k].progress = 100
                       /\ jobs[k].error = "Could not find any content at the specified URL."
                       /\ jobs[k].result = <<>>)
    /\ [][\A i \in 1..Len(runs) :
             runs[i].pc = "scrapeUrl" /\ runs'[i].results = << <<>> >> =>
                 documents' = documents /\ sequence' = sequence]_vars

\* A job failed for want of content while the library holds the document
\* of another job.
C29_Witness ==
    /\ Len(runs) = 2
    /\ runs[2].results = << <<>> >>
    /\ Len(jobs) = 2
    /\ jobs[1].status = "failed"
    /\ jobs[1].error = "Could not find any content at the specified URL."
    /\ jobs[2].status = "complete"
    /\ Cardinality(documents) = 1

\* C30: a step either empties the list (clearJobs), or puts a new job
\* before the others, which stay as they are, or is a turn of one run,
\* which leaves the number of jobs, their order and every job but its own
\* as they are, and the whole list when its job is not in it; and a job
\* that was started and is not in the list is not in it after the step.
C30_UpdateFrame ==
    /\ [][\/ jobs' = <<>> /\ runs' = runs
          \/ /\ Len(runs') = Len(runs) + 1
             /\ Len(jobs') = Len(jobs) + 1
             /\ jobs'[1].id = Len(runs')
             /\ \A k \in 1..Len(jobs) : jobs'[k + 1] = jobs[k]
          \/ \E i \in 1..Len(runs) :
                /\ Len(runs') = Len(runs)
                /\ \A m \in 1..Len(runs) : m # i => runs'[m] = runs[m]
                /\ Len(jobs') = Len(jobs)
                /\ \A k \in 1..Len(jobs) :
                      /\ jobs'[k].id = jobs[k].id
                      /\ jobs[k].id # runs[i].job.id => jobs'[k] = jobs[k]
                /\ PlaceOf(jobs, runs[i].job.id) = 0 => jobs' = jobs]_vars
    /\ [][\A i \in 1..Len(runs) :
             PlaceOf(jobs, runs[i].job.id) = 0 => PlaceOf(jobs', runs[i].job.id) = 0]_vars

\* The first job was cleared while it ran and then ran to its end: it is
\* not in the list, the listeners were never told its end, and the job
\* started after the clearing is the only one in the list.
C30_Witness ==
    /\ Len(runs) = 2
    /\ runs[1].pc = "done"
    /\ PlaceOf(jobs, 1) = 0
    /\ ~Terminal(notified[1][Len(notified[1])].status)
    /\ Len(jobs) = 1
    /\ jobs[1].id = 2
    /\ jobs[1].status = "generating_hashtags"
====
